---------------------------- MODULE Spec2Model ----------------------------
(***************************************************************************)
(* A model of serde_dbus: the DBus wire-format codec.                      *)
(*                                                                         *)
(*   align.rs                 align                                        *)
(*   primitives.rs            DbusPrimitive (signature, alignment, size,   *)
(*                            serialize)                                   *)
(*   ser/message_builder.rs   MessageBuilder, the deferred-emission byte   *)
(*                            assembler                                    *)
(*   ser/internal.rs          the Ready/Pending/Done sub-serializers       *)
(*   ser.rs                   the serde Serializer front end               *)
(*   de/internal.rs           DataBuffer, Deserializer, ArrayDeserializer  *)
(*   de.rs                    the serde Deserializer front end             *)
(*                                                                         *)
(* Bytes are the integers 0..255, byte vectors and signatures are          *)
(* sequences of bytes.  Results of fallible functions are records with an  *)
(* ok flag and an err field (Rust's Result).                                *)
(***************************************************************************)
EXTENDS Integers, Sequences, FiniteSets, TLC

VARIABLES
    pc,                         \* "idle", "ready", "serialized" or "done"
    session_value,              \* the value handed to serialize_with_policy
    session_type,               \* the Rust type of the value
    session_policy,             \* the SerializerPolicy of the session
    session_message,            \* Result<Message> of serialize_with_policy
    session_result,             \* Result<T> of from_message
    session_target,             \* the type T from_message was asked for
    GLOBAL_LENGTH_TOKEN_COUNT,  \* the process-wide AtomicUsize of LengthToken::next
    align_call,                 \* the last call of align: its arguments and result
    threads,                    \* the encoding sessions of concurrent threads
    build,                      \* a MessageBuilder in the making and what was asked of it
    cursor                      \* a Deserializer and the last operation on its cursors

vars == <<pc, session_value, session_type, session_policy, session_message,
         session_result, session_target, GLOBAL_LENGTH_TOKEN_COUNT, align_call,
         threads, build, cursor>>

(***************************************************************************)
(* Signature codes (ASCII).                                                *)
(***************************************************************************)
SIG_y == 121
SIG_b == 98
SIG_n == 110
SIG_q == 113
SIG_i == 105
SIG_u == 117
SIG_x == 120
SIG_t == 116
SIG_d == 100
SIG_s == 115
SIG_o == 111
SIG_g == 103
SIG_h == 104
SIG_a == 97
SIG_v == 118
SIG_LPAREN == 40
SIG_RPAREN == 41
SIG_LBRACE == 123
SIG_RBRACE == 125
SIG_LBRACKET == 91
SIG_RBRACKET == 93

\* lengths read from a message are kept at most this large
USizeCap == 1048576

(***************************************************************************)
(* Generic helpers.                                                        *)
(***************************************************************************)
Max(a, b) == IF a >= b THEN a ELSE b

Zeros(n) == [k \in 1..n |-> 0]

\* v[from+1 .. to] of a zero-indexed byte vector: Rust's v[from..to]
Slice(v, from, to) == SubSeq(v, from + 1, to)

\* Vec::resize(new_len, 0) growing or truncating
Resize(v, new_len) ==
    IF new_len <= Len(v) THEN SubSeq(v, 1, new_len)
    ELSE v \o Zeros(new_len - Len(v))

\* the little-endian two's complement bytes of v, n bytes wide (to_le_bytes)
RECURSIVE to_le_bytes(_, _)
to_le_bytes(v, n) ==
    IF n = 0 THEN <<>>
    ELSE <<v % 256>> \o to_le_bytes(v \div 256, n - 1)

(***************************************************************************)
(* align.rs                                                                *)
(***************************************************************************)
\* align that pads a whole alignment where ix is a multiple of it already
align_past(ix, alignment) == ix + (alignment - (ix % alignment))

\* new_size = ix + ((-ix) & (alignment - 1)), alignment a power of two
align(ix, alignment) == ix + ((alignment - (ix % alignment)) % alignment)

(***************************************************************************)
(* ser/message_builder.rs                                                  *)
(***************************************************************************)
AlignmentSlice(alignment, data) ==
    [kind |-> "AlignmentSlice", alignment |-> alignment, data |-> data, token |-> 0]

LengthBegin(token) ==
    [kind |-> "LengthBegin", alignment |-> 0, data |-> <<>>, token |-> token]

LengthEnd(token) ==
    [kind |-> "LengthEnd", alignment |-> 0, data |-> <<>>, token |-> token]

align_vec(vec, alignment) == Resize(vec, align(Len(vec), alignment))

MessageBuilder_new == <<AlignmentSlice(1, <<>>)>>

PendingMessage_new == [builder |-> MessageBuilder_new, signature |-> <<>>]

\* the last component, which the builder keeps an alignment slice
top(b) == b[Len(b)]

SetTop(b, slice) == [b EXCEPT ![Len(b)] = slice]

\* align that pads inside a non-empty top slice whatever its alignment
MessageBuilder_align_in_place(b, alignment) ==
    IF top(b).data = <<>>
    THEN SetTop(b, AlignmentSlice(Max(top(b).alignment, alignment), <<>>))
    ELSE SetTop(b, AlignmentSlice(top(b).alignment, align_vec(top(b).data, alignment)))

MessageBuilder_align(b, alignment) ==
    IF top(b).data = <<>>
    THEN SetTop(b, AlignmentSlice(Max(top(b).alignment, alignment), <<>>))
    ELSE IF top(b).alignment >= alignment
    THEN SetTop(b, AlignmentSlice(top(b).alignment, align_vec(top(b).data, alignment)))
    ELSE Append(b, AlignmentSlice(alignment, <<>>))

\* resizes the top slice by size zero bytes; the caller fills them (copy_into_top)
prepare_write(b, size) ==
    SetTop(b, AlignmentSlice(top(b).alignment, Resize(top(b).data, Len(top(b).data) + size)))

\* the caller's write through the slice prepare_write returned: the last
\* Len(bytes) bytes of the top slice
copy_into_top(b, bytes) ==
    SetTop(b, AlignmentSlice(top(b).alignment,
                             SubSeq(top(b).data, 1, Len(top(b).data) - Len(bytes))
                                 \o bytes))

\* LengthToken::next: fetch_add(1) on the global counter
LengthToken_next(count) == [token |-> count, count |-> count + 1]

start_length(b, count) ==
    [builder |-> MessageBuilder_align(b, 4)
                     \o <<LengthBegin(LengthToken_next(count).token), AlignmentSlice(4, <<>>)>>,
     token |-> LengthToken_next(count).token,
     count |-> LengthToken_next(count).count]

\* finish_length that leaves the length-end marker on top
finish_length_marker_on_top(b, token) == b \o <<LengthEnd(token)>>

finish_length(b, token) == b \o <<LengthEnd(token), AlignmentSlice(1, <<>>)>>

RECURSIVE append_data_from(_, _, _)
append_data_from(b, other, i) ==
    IF i > Len(other) THEN b
    ELSE IF other[i].kind = "AlignmentSlice"
    THEN append_data_from(
             copy_into_top(
                 prepare_write(MessageBuilder_align(b, other[i].alignment),
                               Len(other[i].data)),
                 other[i].data),
             other, i + 1)
    ELSE append_data_from(b \o <<other[i], AlignmentSlice(1, <<>>)>>, other, i + 1)

append_data(b, other) == append_data_from(b, other, 1)

\* complete() that counts an array's length from the end of its length
\* field, whatever padding follows
RECURSIVE complete_from_counting_padding(_, _, _, _, _)
complete_from_counting_padding(data, i, output_data, lengths, recent_length) ==
    IF i > Len(data) THEN [panicked |-> FALSE, output_data |-> output_data]
    ELSE
    LET datum == data[i] IN
    CASE datum.kind = "AlignmentSlice" ->
            complete_from_counting_padding(
                data, i + 1, align_vec(output_data, datum.alignment) \o datum.data,
                lengths, <<>>)
      [] datum.kind = "LengthBegin" ->
            LET entry == <<Len(output_data), Len(output_data) + 4>>
                lengths1 == [t \in DOMAIN lengths \cup {datum.token} |->
                                IF t = datum.token THEN entry ELSE lengths[t]]
            IN  complete_from_counting_padding(data, i + 1, output_data \o <<0, 0, 0, 0>>,
                                               lengths1, <<datum.token>>)
      [] datum.kind = "LengthEnd" ->
            IF datum.token \notin DOMAIN lengths
            THEN [panicked |-> TRUE, output_data |-> output_data]
            ELSE
            LET fill_ix == lengths[datum.token][1]
                length == Len(output_data) - lengths[datum.token][2]
                filled == [k \in 1..Len(output_data) |->
                              IF k > fill_ix /\ k <= fill_ix + 4
                              THEN to_le_bytes(length, 4)[k - fill_ix]
                              ELSE output_data[k]]
                lengths1 == [t \in DOMAIN lengths \ {datum.token} |-> lengths[t]]
            IN  complete_from_counting_padding(data, i + 1, filled, lengths1, <<>>)

\* complete(): one pass over the components.  lengths maps a token to
\* <<fill_ix, begin_ix>>; recent_length is <<>> (None) or <<token>> (Some).
\* The result's panicked flag is the expect() of a length end without begin.
RECURSIVE complete_from(_, _, _, _, _)
complete_from(data, i, output_data, lengths, recent_length) ==
    IF i > Len(data) THEN [panicked |-> FALSE, output_data |-> output_data]
    ELSE
    LET datum == data[i] IN
    CASE datum.kind = "AlignmentSlice" ->
            LET aligned == align_vec(output_data, datum.alignment)
                lengths1 ==
                    IF recent_length # <<>> /\ recent_length[1] \in DOMAIN lengths
                    THEN [lengths EXCEPT ![recent_length[1]] = <<@[1], Len(aligned)>>]
                    ELSE lengths
            IN  complete_from(data, i + 1, aligned \o datum.data, lengths1, <<>>)
      [] datum.kind = "LengthBegin" ->
            LET entry == <<Len(output_data), Len(output_data) + 4>>
                lengths1 == [t \in DOMAIN lengths \cup {datum.token} |->
                                IF t = datum.token THEN entry ELSE lengths[t]]
            IN  complete_from(data, i + 1, output_data \o <<0, 0, 0, 0>>,
                              lengths1, <<datum.token>>)
      [] datum.kind = "LengthEnd" ->
            IF datum.token \notin DOMAIN lengths
            THEN [panicked |-> TRUE, output_data |-> output_data]
            ELSE
            LET fill_ix == lengths[datum.token][1]
                begin_ix == lengths[datum.token][2]
                end_ix == Len(output_data)
                length == end_ix - begin_ix
                filled == [k \in 1..Len(output_data) |->
                              IF k > fill_ix /\ k <= fill_ix + 4
                              THEN to_le_bytes(length, 4)[k - fill_ix]
                              ELSE output_data[k]]
                lengths1 == [t \in DOMAIN lengths \ {datum.token} |-> lengths[t]]
            IN  complete_from(data, i + 1, filled, lengths1, <<>>)

complete(b) == complete_from(b, 1, <<>>, <<>>, <<>>)

(***************************************************************************)
(* Machine numbers.  A 32-bit word is the integer congruent to it modulo   *)
(* 2^32 in -2^31 .. 2^31-1 (so a u32 below 2^31 is itself); a 64-bit       *)
(* integer is the record [hi, lo] of its two 32-bit words; an f64 is its   *)
(* IEEE-754 fields [s, e, hi, lo] (sign, biased exponent, the upper 23 and *)
(* the lower 29 bits of the fraction); an f32 is [s, e, m].                *)
(***************************************************************************)
RECURSIVE Pow2(_)
Pow2(n) == IF n = 0 THEN 1 ELSE 2 * Pow2(n - 1)

\* the 64-bit integer of a small integer n (sign extended)
Int64(n) == [hi |-> IF n < 0 THEN -1 ELSE 0, lo |-> n]

i64_to_le_bytes(v) == to_le_bytes(v.lo, 4) \o to_le_bytes(v.hi, 4)

f64_to_le_bytes(f) ==
    << f.lo % 256,
       (f.lo \div 256) % 256,
       (f.lo \div 65536) % 256,
       ((f.lo \div 16777216) % 32) + ((f.hi % 8) * 32),
       (f.hi \div 8) % 256,
       (f.hi \div 2048) % 256,
       ((f.hi \div 524288) % 16) + ((f.e % 16) * 16),
       (f.e \div 16) + (f.s * 128) >>

\* the position of the highest set bit of m > 0
RECURSIVE HighBit(_)
HighBit(m) == IF m < 2 THEN 0 ELSE 1 + HighBit(m \div 2)

\* `val as f64` of an f32: exact
f32_as_f64(f) ==
    IF f.e = 255 THEN [s |-> f.s, e |-> 2047, hi |-> f.m, lo |-> 0]
    ELSE IF f.e = 0 /\ f.m = 0 THEN [s |-> f.s, e |-> 0, hi |-> 0, lo |-> 0]
    ELSE IF f.e = 0
    THEN LET k == HighBit(f.m)
         IN  [s |-> f.s, e |-> k + 874,
              hi |-> (f.m - Pow2(k)) * Pow2(23 - k), lo |-> 0]
    ELSE [s |-> f.s, e |-> f.e + 896, hi |-> f.m, lo |-> 0]

\* `val as u32` of a char: its scalar value
char_as_u32(c) == c

(***************************************************************************)
(* primitives.rs: DbusPrimitive for u8, f64, i16, u16, i32, u32, i64, u64, *)
(* bool and &str.  T names the Rust type.                                  *)
(***************************************************************************)
size_of(T) ==
    CASE T = "u8" -> 1
      [] T \in {"i16", "u16"} -> 2
      [] T \in {"i32", "u32"} -> 4
      [] T \in {"i64", "u64", "f64"} -> 8

DbusPrimitive_signature(T) ==
    CASE T = "u8" -> SIG_y
      [] T = "f64" -> SIG_d
      [] T = "i16" -> SIG_n
      [] T = "u16" -> SIG_q
      [] T = "i32" -> SIG_i
      [] T = "u32" -> SIG_u
      [] T = "i64" -> SIG_x
      [] T = "u64" -> SIG_t
      [] T = "bool" -> SIG_b
      [] T = "str" -> SIG_s

DbusPrimitive_alignment(T) ==
    CASE T \in {"bool", "str"} -> 4
      [] OTHER -> size_of(T)

DbusPrimitive_size(T, val) ==
    CASE T = "bool" -> 4
      [] T = "str" -> Len(val) + 5
      [] OTHER -> size_of(T)

DbusPrimitive_serialize(T, val) ==
    CASE T = "bool" -> to_le_bytes(IF val THEN 1 ELSE 0, 4)
      [] T = "str" -> to_le_bytes(Len(val), 4) \o val \o <<0>>
      [] T = "f64" -> f64_to_le_bytes(val)
      [] T \in {"i64", "u64"} -> i64_to_le_bytes(val)
      [] OTHER -> to_le_bytes(val, size_of(T))

(***************************************************************************)
(* ser/internal.rs.  A ReadySerializer and a DoneSerializer are their      *)
(* PendingMessage [builder, signature].  Functions that mint a length      *)
(* token take the global counter and return it advanced.                   *)
(***************************************************************************)
Error(kind, a, b) == [kind |-> kind, a |-> a, b |-> b]

ReadySerializer_new == PendingMessage_new

serialize_primitive(mesg, T, primitive) ==
    [builder |-> copy_into_top(
                     prepare_write(
                         MessageBuilder_align(mesg.builder, DbusPrimitive_alignment(T)),
                         DbusPrimitive_size(T, primitive)),
                     DbusPrimitive_serialize(T, primitive)),
     signature |-> Append(mesg.signature, DbusPrimitive_signature(T))]

ReadyStructSerializer_new(mesg) ==
    [builder |-> MessageBuilder_align(mesg.builder, 8),
     signature |-> Append(mesg.signature, SIG_LPAREN)]

ReadyStructSerializer_new_kv_pair(mesg) ==
    [builder |-> MessageBuilder_align(mesg.builder, 8),
     signature |-> Append(mesg.signature, SIG_LBRACE)]

start_struct(mesg) == ReadyStructSerializer_new(mesg)

start_kv_pair(mesg) == ReadyStructSerializer_new_kv_pair(mesg)

\* (PendingStructSerializer, ReadySerializer { mesg }): the item is written
\* through the struct's own message
ReadyStructSerializer_start_item(ser) == ser

PendingStructSerializer_finish_item(item) == item

\* finish_struct without the closing parenthesis
finish_struct_unclosed(ser) == [builder |-> ser.builder, signature |-> ser.signature]

finish_struct(ser) ==
    [builder |-> ser.builder, signature |-> Append(ser.signature, SIG_RPAREN)]

finish_kv_pair(ser) ==
    [builder |-> ser.builder, signature |-> Append(ser.signature, SIG_RBRACE)]

ReadyArraySerializer_new(mesg, item_sig) ==
    [prev |-> mesg, contents |-> PendingMessage_new, item_sig |-> item_sig]

start_array(mesg, item_sig) == ReadyArraySerializer_new(mesg, item_sig)

\* (PendingArraySerializer, ReadySerializer { mesg: contents })
ReadyArraySerializer_start_item(ser) ==
    [pending |-> [prev |-> ser.prev, item_sig |-> ser.item_sig],
     ready |-> ser.contents]

\* finish_array that writes the array before what preceded it
finish_array_contents_first(ser, count) ==
    LET Spliced(started) ==
            [mesg |-> [builder |-> append_data(
                                       finish_length(
                                           append_data(started.builder, ser.contents.builder),
                                           started.token),
                                       ser.prev.builder),
                       signature |-> (ser.prev.signature \o <<SIG_a>>) \o ser.item_sig],
             count |-> started.count]
    IN  Spliced(start_length(MessageBuilder_new, count))

finish_array(ser, count) ==
    LET Spliced(started) ==
            [mesg |-> [builder |-> finish_length(
                                       append_data(started.builder, ser.contents.builder),
                                       started.token),
                       signature |-> (ser.prev.signature \o <<SIG_a>>) \o ser.item_sig],
             count |-> started.count]
    IN  Spliced(start_length(MessageBuilder_align(ser.prev.builder, 4), count))

\* finish_item that does not compare the signatures
PendingArraySerializer_finish_item_unchecked(pending, item) ==
    [ok |-> TRUE,
     err |-> <<>>,
     ser |-> [prev |-> pending.prev,
              contents |-> [builder |-> item.builder, signature |-> <<>>],
              item_sig |-> pending.item_sig]]

PendingArraySerializer_finish_item(pending, item) ==
    IF pending.item_sig # item.signature
    THEN [ok |-> FALSE,
          err |-> Error("MismatchSignature", pending.item_sig, item.signature),
          ser |-> <<>>]
    ELSE [ok |-> TRUE,
          err |-> <<>>,
          ser |-> [prev |-> pending.prev,
                   contents |-> [builder |-> item.builder, signature |-> <<>>],
                   item_sig |-> pending.item_sig]]

\* start_variant: (VariantSerializer { mesg }, ReadySerializer::new())
start_variant(mesg) == [variant |-> mesg, ready |-> ReadySerializer_new]

\* finish_variant without the NUL after the signature
finish_variant_without_nul(mesg, value) ==
    LET SignatureLen(b) ==
            copy_into_top(prepare_write(b, 1), <<Len(value.signature) % 256>>)
        Signature(b) ==
            copy_into_top(prepare_write(b, Len(value.signature)), value.signature)
    IN  [builder |-> append_data(Signature(SignatureLen(mesg.builder)), value.builder),
         signature |-> Append(mesg.signature, SIG_v)]

finish_variant(mesg, value) ==
    LET SignatureLen(b) ==
            copy_into_top(prepare_write(b, 1), <<Len(value.signature) % 256>>)
        Signature(b) ==
            copy_into_top(prepare_write(b, Len(value.signature)), value.signature)
        Nul(b) == copy_into_top(prepare_write(b, 1), <<0>>)
    IN  [builder |-> append_data(Nul(Signature(SignatureLen(mesg.builder))),
                                 value.builder),
         signature |-> Append(mesg.signature, SIG_v)]

\* a ReadyDictSerializer and a PendingDictSerializer are their
\* ReadyArraySerializer
start_dict(mesg) == start_array(mesg, <<SIG_LBRACE, SIG_s, SIG_v, SIG_RBRACE>>)

ReadyDictSerializer_start_item(ser) == [pending |-> ser, ready |-> ReadySerializer_new]

finish_dict(ser, count) == finish_array(ser, count)

\* cancel_item that throws the array contents away
cancel_item_emptied(ser) == [ser EXCEPT !.contents = PendingMessage_new]

cancel_item(ser) == ser

PendingDictSerializer_finish_item(ser, name, value) ==
    LET Key(kv_ser) ==
            PendingStructSerializer_finish_item(
                serialize_primitive(ReadyStructSerializer_start_item(kv_ser), "str", name))
        Value(kv_ser) ==
            PendingStructSerializer_finish_item(
                finish_variant(start_variant(ReadyStructSerializer_start_item(kv_ser)).variant,
                               value))
        Entry(started) ==
            PendingArraySerializer_finish_item(
                started.pending,
                finish_kv_pair(Value(Key(start_kv_pair(started.ready)))))
    IN  Entry(ReadyArraySerializer_start_item(ser))

\* finish_optional_item that keeps every item
finish_optional_item_kept(ser, name, value) ==
    PendingDictSerializer_finish_item(ser, name, value)

finish_optional_item(ser, name, value) ==
    IF value.signature = <<SIG_LPAREN, SIG_RPAREN>>
    THEN [ok |-> TRUE, err |-> <<>>, ser |-> cancel_item(ser)]
    ELSE PendingDictSerializer_finish_item(ser, name, value)

\* DoneSerializer::complete
DoneSerializer_complete(mesg) ==
    [data |-> complete(mesg.builder).output_data, signature |-> mesg.signature]

(***************************************************************************)
(* ser/serializer_policy.rs                                                *)
(***************************************************************************)
DefaultSerializerPolicy_query_struct_name(name) == "Dict"

\* a StronglyTyped policy that answers Dict
StronglyTypedSerializerPolicy_answers_dict(name) == "Dict"

StronglyTypedSerializerPolicy_query_struct_name(name) == "StronglyTyped"

query_struct_name(config, name) ==
    IF config = "DefaultSerializerPolicy"
    THEN DefaultSerializerPolicy_query_struct_name(name)
    ELSE StronglyTypedSerializerPolicy_query_struct_name(name)

(***************************************************************************)
(* ser.rs: the serde Serializer.  A value is [t |-> shape, v |-> payload]  *)
(* (a struct or unit struct also carries its name); Serialize is the       *)
(* value's serde Serialize implementation, which calls the serialize_*     *)
(* method of its shape.  A result is Result<DoneSerializer> together with  *)
(* the global token counter.                                               *)
(***************************************************************************)
SerOk(mesg, count) == [ok |-> TRUE, mesg |-> mesg, count |-> count, err |-> <<>>]

SerErr(err, count) == [ok |-> FALSE, mesg |-> <<>>, count |-> count, err |-> err]

serialize_bool(internal_ser, val) == serialize_primitive(internal_ser, "bool", val)

\* val as i16
serialize_i8(internal_ser, val) == serialize_primitive(internal_ser, "i16", val)

serialize_i16(internal_ser, val) == serialize_primitive(internal_ser, "i16", val)

serialize_i32(internal_ser, val) == serialize_primitive(internal_ser, "i32", val)

serialize_i64(internal_ser, val) == serialize_primitive(internal_ser, "i64", val)

serialize_u8(internal_ser, val) == serialize_primitive(internal_ser, "u8", val)

serialize_u16(internal_ser, val) == serialize_primitive(internal_ser, "u16", val)

serialize_u32(internal_ser, val) == serialize_primitive(internal_ser, "u32", val)

serialize_u64(internal_ser, val) == serialize_primitive(internal_ser, "u64", val)

serialize_f32(internal_ser, val) == serialize_primitive(internal_ser, "f64", f32_as_f64(val))

serialize_f64(internal_ser, val) == serialize_primitive(internal_ser, "f64", val)

serialize_char(internal_ser, val) == serialize_primitive(internal_ser, "u32", char_as_u32(val))

serialize_str(internal_ser, val) == serialize_primitive(internal_ser, "str", val)

serialize_unit(internal_ser) == finish_struct(start_struct(internal_ser))

\* serialize_none that writes nothing
serialize_none_nothing(internal_ser) == internal_ser

serialize_none(internal_ser) == serialize_unit(internal_ser)

serialize_unit_struct(internal_ser, name) == serialize_unit(internal_ser)

RECURSIVE Serialize(_, _, _, _)
RECURSIVE SerializeSeq_each(_, _, _, _, _)
RECURSIVE SerializeTuple_each(_, _, _, _, _)
RECURSIVE SerializeMap_each(_, _, _, _, _)
RECURSIVE SerializeStruct_each(_, _, _, _, _)

\* SerializeSeq::serialize_element on the ReadyArraySerializer internal_ser
SerializeSeq_serialize_element(internal_ser, val, config, count) ==
    LET Finished(finished, sub_item) ==
            [ok |-> finished.ok, err |-> finished.err, ser |-> finished.ser,
             count |-> sub_item.count]
        Wrapped(started, item, sub_item) ==
            IF ~sub_item.ok
            THEN [ok |-> FALSE, err |-> sub_item.err, ser |-> <<>>,
                  count |-> sub_item.count]
            ELSE Finished(PendingArraySerializer_finish_item(
                              started.pending,
                              finish_variant(item.variant, sub_item.mesg)),
                          sub_item)
        Item(started, item) ==
            Wrapped(started, item, Serialize(val, item.ready, config, count))
        Started(started) == Item(started, start_variant(started.ready))
    IN  Started(ReadyArraySerializer_start_item(internal_ser))

\* impl Serialize for Vec<T>: serialize_element for each element, then end()
SerializeSeq_each(internal_ser, elements, i, config, count) ==
    LET End(done) == SerOk(done.mesg, done.count)
        Rest(r) ==
            IF ~r.ok THEN SerErr(r.err, r.count)
            ELSE SerializeSeq_each(r.ser, elements, i + 1, config, r.count)
    IN  IF i > Len(elements) THEN End(finish_array(internal_ser, count))
        ELSE Rest(SerializeSeq_serialize_element(internal_ser, elements[i], config, count))

serialize_seq(internal_ser, elements, config, count) ==
    SerializeSeq_each(start_array(internal_ser, <<SIG_v>>), elements, 1, config, count)

\* SerializeTuple / SerializeTupleStruct ::serialize_element on the
\* ReadyStructSerializer internal_ser
SerializeTuple_serialize_element(internal_ser, val, config, count) ==
    LET Finished(item) ==
            IF ~item.ok THEN item
            ELSE SerOk(PendingStructSerializer_finish_item(item.mesg), item.count)
    IN  Finished(Serialize(val, ReadyStructSerializer_start_item(internal_ser),
                           config, count))

SerializeTuple_each(internal_ser, elements, i, config, count) ==
    LET Rest(r) ==
            IF ~r.ok THEN r
            ELSE SerializeTuple_each(r.mesg, elements, i + 1, config, r.count)
    IN  IF i > Len(elements) THEN SerOk(finish_struct(internal_ser), count)
        ELSE Rest(SerializeTuple_serialize_element(internal_ser, elements[i],
                                                   config, count))

serialize_tuple(internal_ser, elements, config, count) ==
    SerializeTuple_each(start_struct(internal_ser), elements, 1, config, count)

serialize_tuple_struct(internal_ser, name, elements, config, count) ==
    SerializeTuple_each(start_struct(internal_ser), elements, 1, config, count)

\* SerializeMap::serialize_key: the entry is begun in the array's contents
SerializeMap_serialize_key(internal_ser, val, config, count) ==
    LET Key(started, key_item) ==
            IF ~key_item.ok
            THEN [ok |-> FALSE, err |-> key_item.err, count |-> key_item.count,
                  pending_ser |-> <<>>, inner_ser |-> <<>>]
            ELSE [ok |-> TRUE, err |-> <<>>, count |-> key_item.count,
                  pending_ser |-> started.pending,
                  inner_ser |-> PendingStructSerializer_finish_item(key_item.mesg)]
        Started(started) ==
            Key(started,
                Serialize(val,
                          ReadyStructSerializer_start_item(start_kv_pair(started.ready)),
                          config, count))
    IN  Started(ReadyArraySerializer_start_item(internal_ser))

SerializeMap_serialize_value(pending_ser, inner_ser, val, config, count) ==
    LET Finished(finished, inner_inner_inner_ser) ==
            [ok |-> finished.ok, err |-> finished.err, ser |-> finished.ser,
             count |-> inner_inner_inner_ser.count]
        Wrapped(inner_inner_ser, inner_inner_inner_ser) ==
            IF ~inner_inner_inner_ser.ok
            THEN [ok |-> FALSE, err |-> inner_inner_inner_ser.err, ser |-> <<>>,
                  count |-> inner_inner_inner_ser.count]
            ELSE Finished(
                     PendingArraySerializer_finish_item(
                         pending_ser,
                         finish_kv_pair(
                             PendingStructSerializer_finish_item(
                                 finish_variant(inner_inner_ser.variant,
                                                inner_inner_inner_ser.mesg)))),
                     inner_inner_inner_ser)
        Started(inner_inner_ser) ==
            Wrapped(inner_inner_ser, Serialize(val, inner_inner_ser.ready, config, count))
    IN  Started(start_variant(ReadyStructSerializer_start_item(inner_ser)))

\* impl Serialize for a map: serialize_key and serialize_value for each
\* entry in iteration order, then end()
SerializeMap_each(internal_ser, entries, i, config, count) ==
    LET End(done) == SerOk(done.mesg, done.count)
        Rest(r) ==
            IF ~r.ok THEN SerErr(r.err, r.count)
            ELSE SerializeMap_each(r.ser, entries, i + 1, config, r.count)
        Value(k) ==
            IF ~k.ok THEN SerErr(k.err, k.count)
            ELSE Rest(SerializeMap_serialize_value(k.pending_ser, k.inner_ser,
                                                   entries[i].value, config, k.count))
    IN  IF i > Len(entries) THEN End(finish_array(internal_ser, count))
        ELSE Value(SerializeMap_serialize_key(internal_ser, entries[i].key, config, count))

serialize_map(internal_ser, entries, config, count) ==
    SerializeMap_each(start_array(internal_ser, <<SIG_LBRACE, SIG_s, SIG_v, SIG_RBRACE>>),
                      entries, 1, config, count)

\* SerializeStruct::serialize_field; state is [style, ser]
SerializeStruct_serialize_field(state, name, val, config, count) ==
    LET Finished(finished, item) ==
            [ok |-> finished.ok, err |-> finished.err,
             state |-> [style |-> "Dict", ser |-> finished.ser],
             count |-> item.count]
        DictItem(started, item) ==
            IF ~item.ok
            THEN [ok |-> FALSE, err |-> item.err, state |-> <<>>, count |-> item.count]
            ELSE Finished(finish_optional_item(started.pending, name, item.mesg), item)
        DictStarted(started) ==
            DictItem(started, Serialize(val, started.ready, config, count))
        StructItem(item) ==
            IF ~item.ok
            THEN [ok |-> FALSE, err |-> item.err, state |-> <<>>, count |-> item.count]
            ELSE [ok |-> TRUE, err |-> <<>>,
                  state |-> [style |-> "Struct",
                             ser |-> PendingStructSerializer_finish_item(item.mesg)],
                  count |-> item.count]
    IN  IF state.style = "Dict"
        THEN DictStarted(ReadyDictSerializer_start_item(state.ser))
        ELSE StructItem(Serialize(val, ReadyStructSerializer_start_item(state.ser),
                                  config, count))

SerializeStruct_end(state, count) ==
    LET End(done) == SerOk(done.mesg, done.count)
    IN  IF state.style = "Dict" THEN End(finish_dict(state.ser, count))
        ELSE SerOk(finish_struct(state.ser), count)

\* the derived Serialize of a struct: serialize_field for each field in
\* declaration order, then end()
SerializeStruct_each(state, fields, i, config, count) ==
    LET Rest(r) ==
            IF ~r.ok THEN SerErr(r.err, r.count)
            ELSE SerializeStruct_each(r.state, fields, i + 1, config, r.count)
    IN  IF i > Len(fields) THEN SerializeStruct_end(state, count)
        ELSE Rest(SerializeStruct_serialize_field(state, fields[i].name, fields[i].value,
                                                  config, count))

serialize_struct(internal_ser, name, fields, config, count) ==
    SerializeStruct_each(
        IF query_struct_name(config, name) = "Dict"
        THEN [style |-> "Dict", ser |-> start_dict(internal_ser)]
        ELSE [style |-> "Struct", ser |-> start_struct(internal_ser)],
        fields, 1, config, count)

Serialize(val, internal_ser, config, count) ==
    CASE val.t = "bool" -> SerOk(serialize_bool(internal_ser, val.v), count)
      [] val.t = "i8" -> SerOk(serialize_i8(internal_ser, val.v), count)
      [] val.t = "i16" -> SerOk(serialize_i16(internal_ser, val.v), count)
      [] val.t = "i32" -> SerOk(serialize_i32(internal_ser, val.v), count)
      [] val.t = "i64" -> SerOk(serialize_i64(internal_ser, val.v), count)
      [] val.t = "u8" -> SerOk(serialize_u8(internal_ser, val.v), count)
      [] val.t = "u16" -> SerOk(serialize_u16(internal_ser, val.v), count)
      [] val.t = "u32" -> SerOk(serialize_u32(internal_ser, val.v), count)
      [] val.t = "u64" -> SerOk(serialize_u64(internal_ser, val.v), count)
      [] val.t = "f32" -> SerOk(serialize_f32(internal_ser, val.v), count)
      [] val.t = "f64" -> SerOk(serialize_f64(internal_ser, val.v), count)
      [] val.t = "char" -> SerOk(serialize_char(internal_ser, val.v), count)
      [] val.t = "str" -> SerOk(serialize_str(internal_ser, val.v), count)
      [] val.t = "none" -> SerOk(serialize_none(internal_ser), count)
      [] val.t = "some" -> Serialize(val.v, internal_ser, config, count)
      [] val.t = "unit" -> SerOk(serialize_unit(internal_ser), count)
      [] val.t = "unit_struct" -> SerOk(serialize_unit_struct(internal_ser, val.name), count)
      [] val.t = "seq" -> serialize_seq(internal_ser, val.v, config, count)
      [] val.t = "tuple" -> serialize_tuple(internal_ser, val.v, config, count)
      [] val.t = "map" -> serialize_map(internal_ser, val.v, config, count)
      [] val.t = "struct" -> serialize_struct(internal_ser, val.name, val.v, config, count)

\* serialize_with_policy; the result also carries the advanced token counter
serialize_with_policy(val, config, count) ==
    LET Complete(done_serializer) ==
            IF ~done_serializer.ok
            THEN [ok |-> FALSE, err |-> done_serializer.err, message |-> <<>>,
                  count |-> done_serializer.count]
            ELSE [ok |-> TRUE, err |-> <<>>,
                  message |-> DoneSerializer_complete(done_serializer.mesg),
                  count |-> done_serializer.count]
    IN  Complete(Serialize(val, ReadySerializer_new, config, count))

serialize(val, count) == serialize_with_policy(val, "DefaultSerializerPolicy", count)

(***************************************************************************)
(* Reading machine numbers back (byteorder's LE readers) and the casts of  *)
(* de.rs.                                                                  *)
(***************************************************************************)
read_u16(b) == b[1] + (256 * b[2])

read_i16(b) == b[1] + (256 * (IF b[2] >= 128 THEN b[2] - 256 ELSE b[2]))

\* the 32-bit word of four bytes
read_word(b) ==
    b[1] + (256 * b[2]) + (65536 * b[3])
         + (16777216 * (IF b[4] >= 128 THEN b[4] - 256 ELSE b[4]))

read_u32(b) == read_word(b)

read_i32(b) == read_word(b)

read_i64(b) == [hi |-> read_word(SubSeq(b, 5, 8)), lo |-> read_word(SubSeq(b, 1, 4))]

read_u64(b) == read_i64(b)

read_f64(b) ==
    [s |-> b[8] \div 128,
     e |-> (b[7] \div 16) + (16 * (b[8] % 128)),
     hi |-> (b[4] \div 32) + (8 * b[5]) + (2048 * b[6]) + (524288 * (b[7] % 16)),
     lo |-> b[1] + (256 * b[2]) + (65536 * b[3]) + (16777216 * (b[4] % 32))]

\* `i as i8` of an i16: the low 8 bits, two's complement
\* a conversion that saturates at the ends of i8
i16_as_i8_saturating(i) == IF i > 127 THEN 127 ELSE IF i < -128 THEN -128 ELSE i

i16_as_i8(i) == ((i + 128) % 256) - 128

\* `i as f32` of an f64: round to nearest, ties to even
f64_as_f32(f) ==
    LET e32 == f.e - 896
        sig == 8388608 + f.hi
        shift == 1 - e32
    IN  IF f.e = 2047
        THEN [s |-> f.s, e |-> 255,
              m |-> IF f.hi = 0 /\ f.lo = 0 THEN 0
                    ELSE IF f.hi >= 4194304 THEN f.hi ELSE f.hi + 4194304]
        ELSE IF f.e = 0 THEN [s |-> f.s, e |-> 0, m |-> 0]
        ELSE IF e32 >= 1
        THEN LET up == f.lo > 268435456 \/ (f.lo = 268435456 /\ f.hi % 2 = 1)
                 m1 == IF up THEN f.hi + 1 ELSE f.hi
                 e1 == IF m1 = 8388608 THEN e32 + 1 ELSE e32
             IN  IF e1 >= 255 THEN [s |-> f.s, e |-> 255, m |-> 0]
                 ELSE [s |-> f.s, e |-> e1, m |-> m1 % 8388608]
        ELSE IF shift > 25 THEN [s |-> f.s, e |-> 0, m |-> 0]
        ELSE LET q == sig \div Pow2(shift)
                 r == sig % Pow2(shift)
                 half == Pow2(shift - 1)
                 up == r > half \/ (r = half /\ (f.lo > 0 \/ q % 2 = 1))
                 m1 == IF up THEN q + 1 ELSE q
             IN  [s |-> f.s, e |-> IF m1 >= 8388608 THEN 1 ELSE 0, m |-> m1 % 8388608]

\* char::try_from(u32): a Unicode scalar value (a u32 of 2^31 or more is a
\* negative word)
char_try_from(i) == (i >= 0 /\ i < 55296) \/ (i >= 57344 /\ i <= 1114111)

\* `x as usize` of a u32 used as a length: lengths above USizeCap are all
\* beyond every buffer of the model and are kept at USizeCap
as_usize(i) == IF i < 0 \/ i > USizeCap THEN USizeCap ELSE i

\* std::str::from_utf8 succeeds
RECURSIVE is_utf8_from(_, _)
is_utf8_from(b, i) ==
    LET Cont(k) == k <= Len(b) /\ b[k] >= 128 /\ b[k] <= 191
        In(k, lo, hi) == k <= Len(b) /\ b[k] >= lo /\ b[k] <= hi
    IN  IF i > Len(b) THEN TRUE
        ELSE IF b[i] < 128 THEN is_utf8_from(b, i + 1)
        ELSE IF b[i] >= 194 /\ b[i] <= 223
        THEN Cont(i + 1) /\ is_utf8_from(b, i + 2)
        ELSE IF b[i] >= 224 /\ b[i] <= 239
        THEN /\ CASE b[i] = 224 -> In(i + 1, 160, 191)
                  [] b[i] = 237 -> In(i + 1, 128, 159)
                  [] OTHER -> Cont(i + 1)
             /\ Cont(i + 2)
             /\ is_utf8_from(b, i + 3)
        ELSE IF b[i] >= 240 /\ b[i] <= 244
        THEN /\ CASE b[i] = 240 -> In(i + 1, 144, 191)
                  [] b[i] = 244 -> In(i + 1, 128, 143)
                  [] OTHER -> Cont(i + 1)
             /\ Cont(i + 2)
             /\ Cont(i + 3)
             /\ is_utf8_from(b, i + 4)
        ELSE FALSE

from_utf8(b) == is_utf8_from(b, 1)

(***************************************************************************)
(* de/internal.rs.  A Deserializer is [sig, sig_ix, data, data_ix]: its    *)
(* own signature cursor and the DataBuffer it borrows (indices count from  *)
(* 0 as in the source).  A child deserializer is made from the parent's    *)
(* buffer and hands data_ix back when it is done.  Every function returns  *)
(* [ok, err, de, out]: the Result, the deserializer afterwards and the     *)
(* value returned.                                                         *)
(***************************************************************************)
DataBuffer_from_message(mesg) == [data |-> mesg.data, data_ix |-> 0]

\* complete() that does not look at the cursor
DataBuffer_complete_unchecked(buff) == [ok |-> TRUE, err |-> <<>>]

DataBuffer_complete(buff) ==
    LET leftover_data == Len(buff.data) - buff.data_ix
    IN  IF leftover_data # 0
        THEN [ok |-> FALSE, err |-> Error("LeftoverData", leftover_data, 0)]
        ELSE [ok |-> TRUE, err |-> <<>>]

Deserializer(sig, sig_ix, data, data_ix) ==
    [sig |-> sig, sig_ix |-> sig_ix, data |-> data, data_ix |-> data_ix]

from_message_and_buffer(buff, mesg) ==
    Deserializer(mesg.signature, 0, buff.data, buff.data_ix)

DeOk(de, out) == [ok |-> TRUE, err |-> <<>>, de |-> de, out |-> out]

DeErr(de, err) == [ok |-> FALSE, err |-> err, de |-> de, out |-> <<>>]

sig_alignment(item_sig) ==
    CASE item_sig = SIG_y -> [ok |-> TRUE, out |-> 1]
      [] item_sig = SIG_b -> [ok |-> TRUE, out |-> 4]
      [] item_sig = SIG_n -> [ok |-> TRUE, out |-> 2]
      [] item_sig = SIG_q -> [ok |-> TRUE, out |-> 2]
      [] item_sig = SIG_i -> [ok |-> TRUE, out |-> 4]
      [] item_sig = SIG_u -> [ok |-> TRUE, out |-> 4]
      [] item_sig = SIG_x -> [ok |-> TRUE, out |-> 8]
      [] item_sig = SIG_t -> [ok |-> TRUE, out |-> 8]
      [] item_sig = SIG_d -> [ok |-> TRUE, out |-> 8]
      [] item_sig = SIG_s -> [ok |-> TRUE, out |-> 4]
      [] item_sig = SIG_o -> [ok |-> TRUE, out |-> 4]
      [] item_sig = SIG_g -> [ok |-> TRUE, out |-> 1]
      [] item_sig = SIG_a -> [ok |-> TRUE, out |-> 4]
      [] item_sig = SIG_LPAREN -> [ok |-> TRUE, out |-> 8]
      [] item_sig = SIG_v -> [ok |-> TRUE, out |-> 1]
      [] item_sig = SIG_LBRACE -> [ok |-> TRUE, out |-> 8]
      [] item_sig = SIG_h -> [ok |-> TRUE, out |-> 4]
      [] OTHER -> [ok |-> FALSE, out |-> 0]

\* the loop of grab_single_sig from index i with the nesting so far
RECURSIVE grab_single_sig_from(_, _, _, _)
grab_single_sig_from(de, start, i, nesting) ==
    IF i >= Len(de.sig)
    THEN DeErr(de, Error("MismatchedSignatureBracketing", start, 0))
    ELSE
    LET c == de.sig[i + 1]
        nesting1 == IF c \in {SIG_LPAREN, SIG_LBRACKET, SIG_LBRACE} THEN nesting + 1
                    ELSE IF c \in {SIG_RPAREN, SIG_RBRACKET, SIG_RBRACE} THEN nesting - 1
                    ELSE nesting
    IN  IF c = SIG_a THEN grab_single_sig_from(de, start, i + 1, nesting1)
        ELSE IF nesting1 = 0
        THEN DeOk([de EXCEPT !.sig_ix = i + 1], Slice(de.sig, start, i + 1))
        ELSE grab_single_sig_from(de, start, i + 1, nesting1)

\* grab_single_sig that stops at the first byte that is not an 'a'
grab_single_sig_first_byte(de) ==
    LET Grabbed(first) ==
            IF first >= Len(de.sig)
            THEN DeErr(de, Error("MismatchedSignatureBracketing", de.sig_ix, 0))
            ELSE DeOk([de EXCEPT !.sig_ix = first + 1], Slice(de.sig, de.sig_ix, first + 1))
        RECURSIVE Skip(_)
        Skip(ix) == IF ix < Len(de.sig) /\ de.sig[ix + 1] = SIG_a THEN Skip(ix + 1) ELSE ix
    IN  Grabbed(Skip(de.sig_ix))

grab_single_sig(de) == grab_single_sig_from(de, de.sig_ix, de.sig_ix, 0)

\* peek_single_sig that leaves the cursor where grab_single_sig put it
peek_single_sig_unrestored(de) == grab_single_sig(de)

peek_single_sig(de) ==
    LET Peeked(res) == IF ~res.ok THEN res ELSE DeOk(de, res.out)
    IN  Peeked(grab_single_sig(de))

\* out is the bool returned
probe_signature_bytes(de, expected) ==
    IF de.sig_ix + Len(expected) > Len(de.sig) THEN DeOk(de, FALSE)
    ELSE IF Slice(de.sig, de.sig_ix, de.sig_ix + Len(expected)) = expected
    THEN DeOk([de EXCEPT !.sig_ix = de.sig_ix + Len(expected)], TRUE)
    ELSE DeOk(de, FALSE)

expect_signature_byte(de, expected) ==
    IF de.sig_ix >= Len(de.sig) THEN DeErr(de, Error("SignatureExhausted", 0, 0))
    ELSE IF de.sig[de.sig_ix + 1] # expected
    THEN DeErr(de, Error("SignatureError", expected, de.sig[de.sig_ix + 1]))
    ELSE DeOk([de EXCEPT !.sig_ix = de.sig_ix + 1], <<>>)

expect_signature_str(de, expected) ==
    LET Probed(probed) ==
            IF probed.out THEN DeOk(probed.de, <<>>)
            ELSE DeErr(de, Error("SignatureErrorIx", expected, de.sig_ix))
    IN  Probed(probe_signature_bytes(de, expected))

validate_ix(de) ==
    IF de.data_ix > Len(de.data)
    THEN DeErr(de, Error("IndexOutOfBounds", de.data_ix, 0))
    ELSE DeOk(de, <<>>)

\* align_reader that does not validate the cursor it stored
align_reader_unvalidated(de, alignment) ==
    DeOk([de EXCEPT !.data_ix = align(de.data_ix, alignment)], <<>>)

align_reader(de, alignment) ==
    validate_ix([de EXCEPT !.data_ix = align(de.data_ix, alignment)])

\* out is the slice data[old_ix..new_ix]
read(de, len) ==
    LET Checked(checked) ==
            IF ~checked.ok THEN checked
            ELSE DeOk(checked.de, Slice(de.data, de.data_ix, de.data_ix + len))
    IN  Checked(validate_ix([de EXCEPT !.data_ix = de.data_ix + len]))

read_align_signature_value(de, S, signature, alignment) ==
    LET Aligned(aligned) == IF ~aligned.ok THEN aligned ELSE read(aligned.de, S)
        Expected(expected) ==
            IF ~expected.ok THEN expected
            ELSE Aligned(align_reader(expected.de, alignment))
    IN  Expected(expect_signature_byte(de, signature))

deserialize_bytes_basic(de) ==
    LET Res(res, size) ==
            IF ~res.ok THEN res ELSE DeOk(res.de, SubSeq(res.out, 1, size))
        Size(head, size) == Res(read(head.de, size + 1), size)
        Header(head) ==
            IF ~head.ok THEN head ELSE Size(head, as_usize(read_u32(head.out)))
    IN  Header(read_align_signature_value(de, 4, SIG_s, 4))

deserialize_str_basic(de) ==
    LET Bytes(bytes) ==
            IF ~bytes.ok THEN bytes
            ELSE IF ~from_utf8(bytes.out)
            THEN DeErr(bytes.de, Error("StringConversion", 0, 0))
            ELSE bytes
    IN  Bytes(deserialize_bytes_basic(de))

\* possible_variant that never unwraps
possible_variant_never(de) == DeOk(de, <<>>)

\* the child has the embedded signature and a fresh cursor after a 'v', and
\* the parent's signature and cursor otherwise
possible_variant(de) ==
    LET Sig(sig, sig_len) ==
            IF ~sig.ok THEN sig
            ELSE DeOk(Deserializer(SubSeq(sig.out, 1, sig_len), 0, de.data,
                                   sig.de.data_ix),
                      <<>>)
        LenByte(len_byte) ==
            IF ~len_byte.ok THEN len_byte
            ELSE Sig(read(len_byte.de, len_byte.out[1] + 1), len_byte.out[1])
        Probed(probed) ==
            IF ~probed.out THEN DeOk(de, <<>>) ELSE LenByte(read(probed.de, 1))
    IN  Probed(probe_signature_bytes(de, <<SIG_v>>))

\* the child over one single-type signature; out is the parent afterwards
subsidiary(de) ==
    LET ItemSig(item_sig) ==
            IF ~item_sig.ok THEN item_sig
            ELSE DeOk(Deserializer(item_sig.out, 0, de.data, de.data_ix), item_sig.de)
    IN  ItemSig(grab_single_sig(de))

\* an ArrayDeserializer is [end_ix, item_sig, data, data_ix]
ArrayDeserializer(end_ix, item_sig, data, data_ix) ==
    [end_ix |-> end_ix, item_sig |-> item_sig, data |-> data, data_ix |-> data_ix]

array_deserializer(de, array_size) ==
    LET Aligned(item_sig, aligned) ==
            IF ~aligned.ok THEN aligned
            ELSE DeOk(aligned.de,
                      ArrayDeserializer(aligned.de.data_ix + array_size, item_sig.out,
                                        de.data, aligned.de.data_ix))
        Alignment(item_sig, alignment) ==
            IF ~alignment.ok
            THEN DeErr(item_sig.de,
                       Error("UnrecognizedSignatureCharacter", item_sig.out[1], 0))
            ELSE Aligned(item_sig, align_reader(item_sig.de, alignment.out))
        ItemSig(item_sig) ==
            IF ~item_sig.ok THEN item_sig
            ELSE Alignment(item_sig, sig_alignment(item_sig.out[1]))
    IN  ItemSig(grab_single_sig(de))

\* next_item_deserializer that takes a cursor past the end for the end
next_item_deserializer_past_end(arr) ==
    IF arr.data_ix >= arr.end_ix THEN DeOk(arr, <<>>)
    ELSE DeOk(arr, <<Deserializer(arr.item_sig, 0, arr.data, arr.data_ix)>>)

\* out is <<>> (None) or <<de>> (Some); de of the result is unused
next_item_deserializer(arr) ==
    IF arr.data_ix > arr.end_ix
    THEN DeErr(arr, Error("ArrayElementOverrun", arr.data_ix, arr.end_ix))
    ELSE IF arr.data_ix = arr.end_ix THEN DeOk(arr, <<>>)
    ELSE DeOk(arr, <<Deserializer(arr.item_sig, 0, arr.data, arr.data_ix)>>)

next_key_deserializer(arr) ==
    LET Sig(aligned, sig) ==
            IF ~sig.ok THEN sig
            ELSE DeOk(arr, <<Deserializer(sig.out, 0, arr.data, aligned.de.data_ix)>>)
        Opened(aligned, opened) ==
            IF ~opened.ok THEN opened ELSE Sig(aligned, grab_single_sig(opened.de))
        Aligned(aligned) ==
            IF ~aligned.ok THEN aligned
            ELSE Opened(aligned, expect_signature_byte(aligned.de, SIG_LBRACE))
        Item(item) ==
            IF ~item.ok \/ item.out = <<>> THEN item
            ELSE Aligned(align_reader(item.out[1], 8))
    IN  Item(next_item_deserializer(arr))

next_value_deserializer(arr) ==
    LET Closed(sig, closed) ==
            IF ~closed.ok THEN closed
            ELSE DeOk(arr, <<Deserializer(sig.out, 0, arr.data, arr.data_ix)>>)
        Sig(sig) ==
            IF ~sig.ok THEN sig ELSE Closed(sig, expect_signature_byte(sig.de, SIG_RBRACE))
        KeySig(key_sig) ==
            IF ~key_sig.ok THEN key_sig ELSE Sig(grab_single_sig(key_sig.de))
        Opened(opened) ==
            IF ~opened.ok THEN opened ELSE KeySig(grab_single_sig(opened.de))
        Item(item) ==
            IF ~item.ok \/ item.out = <<>> THEN item
            ELSE Opened(expect_signature_byte(item.out[1], SIG_LBRACE))
    IN  Item(next_item_deserializer(arr))

(***************************************************************************)
(* de.rs: the serde Deserializer.  A Rust type is [k |-> kind, ...]:       *)
(*   [k |-> "bool"] and the other scalars, [k |-> "str"] (String),         *)
(*   [k |-> "unit"], [k |-> "unit_struct", name |-> n],                    *)
(*   [k |-> "option", of |-> T], [k |-> "seq", of |-> T] (Vec<T>),         *)
(*   [k |-> "tuple", items |-> <<T1, ..>>],                                *)
(*   [k |-> "map", key |-> K, of |-> T] (BTreeMap<K, T>),                  *)
(*   [k |-> "struct", name |-> n, fields |-> <<[name, ty], ..>>] (a struct *)
(*   with derived Deserialize), [k |-> "ignored_any"] (serde's IgnoredAny).*)
(* Deserialize(T, de) is T::deserialize(de): the type's serde Deserialize  *)
(* implementation calling the deserialize_* method of its kind, and the    *)
(* visitor of the type consuming what that method hands it.  It returns    *)
(* [ok, err, val, data_ix]: the Result and the buffer's cursor afterwards. *)
(***************************************************************************)
V(t, v) == [t |-> t, v |-> v]

DOk(val, data_ix) == [ok |-> TRUE, err |-> <<>>, val |-> val, data_ix |-> data_ix]

DErr(err, data_ix) == [ok |-> FALSE, err |-> err, val |-> <<>>, data_ix |-> data_ix]

\* deserialize_bool that takes every u32 but 0 for true
deserialize_bool_nonzero(de0) ==
    LET Bytes(bytes) ==
            IF ~bytes.ok THEN DErr(bytes.err, bytes.de.data_ix)
            ELSE DOk(V("bool", read_u32(bytes.out) # 0), bytes.de.data_ix)
        Variant(de) ==
            IF ~de.ok THEN DErr(de.err, de.de.data_ix)
            ELSE Bytes(read_align_signature_value(de.de, 4, SIG_b, 4))
    IN  Variant(possible_variant(de0))

\* the scalar methods: possible_variant, read_align_signature_value, convert
deserialize_bool(de0) ==
    LET Value(bytes, i) ==
            IF i > 1 \/ i < 0
            THEN DErr(Error("InvalidBoolValue", i, 0), bytes.de.data_ix)
            ELSE DOk(V("bool", i = 1), bytes.de.data_ix)
        Bytes(bytes) ==
            IF ~bytes.ok THEN DErr(bytes.err, bytes.de.data_ix)
            ELSE Value(bytes, read_u32(bytes.out))
        Variant(de) ==
            IF ~de.ok THEN DErr(de.err, de.de.data_ix)
            ELSE Bytes(read_align_signature_value(de.de, 4, SIG_b, 4))
    IN  Variant(possible_variant(de0))

\* the shape shared by the numeric methods: t is the visited type, S the
\* bytes read; Convert gives the visited value from the bytes
deserialize_number(de0, t, S, signature, alignment, Convert(_)) ==
    LET Bytes(bytes) ==
            IF ~bytes.ok THEN DErr(bytes.err, bytes.de.data_ix)
            ELSE DOk(V(t, Convert(bytes.out)), bytes.de.data_ix)
        Variant(de) ==
            IF ~de.ok THEN DErr(de.err, de.de.data_ix)
            ELSE Bytes(read_align_signature_value(de.de, S, signature, alignment))
    IN  Variant(possible_variant(de0))

deserialize_i8(de) ==
    LET Convert(b) == i16_as_i8(read_i16(b))
    IN  deserialize_number(de, "i8", 2, SIG_n, 2, Convert)

deserialize_i16(de) == deserialize_number(de, "i16", 2, SIG_n, 2, read_i16)

deserialize_i32(de) == deserialize_number(de, "i32", 4, SIG_i, 4, read_i32)

deserialize_i64(de) == deserialize_number(de, "i64", 8, SIG_x, 8, read_i64)

deserialize_u8(de) ==
    LET Convert(b) == b[1]
    IN  deserialize_number(de, "u8", 1, SIG_y, 1, Convert)

deserialize_u16(de) == deserialize_number(de, "u16", 2, SIG_q, 2, read_u16)

deserialize_u32(de) == deserialize_number(de, "u32", 4, SIG_u, 4, read_u32)

deserialize_u64(de) == deserialize_number(de, "u64", 8, SIG_t, 8, read_u64)

deserialize_f32(de) ==
    LET Convert(b) == f64_as_f32(read_f64(b))
    IN  deserialize_number(de, "f32", 8, SIG_d, 4, Convert)

deserialize_f64(de) == deserialize_number(de, "f64", 8, SIG_d, 8, read_f64)

deserialize_char(de0) ==
    LET Char(r) ==
            IF r.ok /\ ~char_try_from(r.val.v)
            THEN DErr(Error("CharTryFromError", 0, 0), r.data_ix)
            ELSE r
    IN  Char(deserialize_number(de0, "char", 4, SIG_u, 2, read_u32))

deserialize_str(de0) ==
    LET String(string) ==
            IF ~string.ok THEN DErr(string.err, string.de.data_ix)
            ELSE DOk(V("str", string.out), string.de.data_ix)
        Variant(de) ==
            IF ~de.ok THEN DErr(de.err, de.de.data_ix)
            ELSE String(deserialize_str_basic(de.de))
    IN  Variant(possible_variant(de0))

deserialize_string(de) == deserialize_str(de)

deserialize_identifier(de) == deserialize_str(de)

deserialize_unit(de0) ==
    LET Aligned(aligned) ==
            IF ~aligned.ok THEN DErr(aligned.err, aligned.de.data_ix)
            ELSE DOk(V("unit", <<>>), aligned.de.data_ix)
        Expected(expected) ==
            IF ~expected.ok THEN DErr(expected.err, expected.de.data_ix)
            ELSE Aligned(align_reader(expected.de, 8))
        Variant(de) ==
            IF ~de.ok THEN DErr(de.err, de.de.data_ix)
            ELSE Expected(expect_signature_str(de.de, <<SIG_LPAREN, SIG_RPAREN>>))
    IN  Variant(possible_variant(de0))

deserialize_unit_struct(de, name) ==
    LET Unit(r) ==
            IF ~r.ok THEN r
            ELSE DOk([t |-> "unit_struct", name |-> name, v |-> <<>>], r.data_ix)
    IN  Unit(deserialize_unit(de))

ArrayDeserializer_new(de) ==
    LET Bytes(bytes) ==
            IF ~bytes.ok THEN bytes
            ELSE array_deserializer(bytes.de, as_usize(read_u32(bytes.out)))
        Aligned(aligned) == IF ~aligned.ok THEN aligned ELSE Bytes(read(aligned.de, 4))
        Expected(expected) ==
            IF ~expected.ok THEN expected ELSE Aligned(align_reader(expected.de, 4))
    IN  Expected(expect_signature_byte(de, SIG_a))

\* a SeqAccess or MapAccess handed to a visitor is [kind, de]: the
\* StructDeserializer of a Deserializer or an ArrayDeserializer.  Its methods
\* return [ok, err, access, out]: out is <<>> (None) or <<val>> (Some).
StructDeserializer(de) == [kind |-> "StructDeserializer", de |-> de]

ArrayAccess(arr) == [kind |-> "ArrayDeserializer", de |-> arr]

AOk(access, out) == [ok |-> TRUE, err |-> <<>>, access |-> access, out |-> out]

AErr(access, err) == [ok |-> FALSE, err |-> err, access |-> access, out |-> <<>>]

\* the access with the buffer's cursor moved to data_ix
AtIx(access, data_ix) == [access EXCEPT !.de.data_ix = data_ix]

\* BTreeMap::insert on entries kept in key order
LessBytes(a, b) ==
    \E i \in 1..(Len(b)) :
        /\ \A j \in 1..(i - 1) : j <= Len(a) /\ a[j] = b[j]
        /\ (i > Len(a) \/ (i <= Len(a) /\ a[i] < b[i]))

BTreeMap_insert(entries, key, val) ==
    IF \E i \in 1..Len(entries) : entries[i].key.v = key.v
    THEN [i \in 1..Len(entries) |->
             IF entries[i].key.v = key.v THEN [key |-> entries[i].key, value |-> val]
             ELSE entries[i]]
    ELSE LET before == SelectSeq(entries, LAMBDA e : LessBytes(e.key.v, key.v))
             after == SelectSeq(entries, LAMBDA e : ~LessBytes(e.key.v, key.v))
         IN  before \o <<[key |-> key, value |-> val]>> \o after

RECURSIVE Deserialize(_, _)

\* SeqAccess::next_element_seed of StructDeserializer
StructDeserializer_next_element_seed(access, T) ==
    LET Element(sub, r) ==
            IF ~r.ok THEN AErr(AtIx(StructDeserializer(sub.out), r.data_ix), r.err)
            ELSE AOk(AtIx(StructDeserializer(sub.out), r.data_ix), <<r.val>>)
        Sub(sub) ==
            IF ~sub.ok THEN AErr(access, sub.err)
            ELSE Element(sub, Deserialize(T, sub.de))
        Probed(probed) ==
            IF probed.out THEN AOk(StructDeserializer(probed.de), <<>>)
            ELSE Sub(subsidiary(access.de))
    IN  Probed(probe_signature_bytes(access.de, <<SIG_RPAREN>>))

\* SeqAccess::next_element_seed of ArrayDeserializer
ArrayDeserializer_next_element_seed(access, T) ==
    LET Element(r) ==
            IF ~r.ok THEN AErr(AtIx(access, r.data_ix), r.err)
            ELSE AOk(AtIx(access, r.data_ix), <<r.val>>)
        Item(item) ==
            IF ~item.ok THEN AErr(access, item.err)
            ELSE IF item.out = <<>> THEN AOk(access, <<>>)
            ELSE Element(Deserialize(T, item.out[1]))
    IN  Item(next_item_deserializer(access.de))

next_element_seed(access, T) ==
    IF access.kind = "StructDeserializer"
    THEN StructDeserializer_next_element_seed(access, T)
    ELSE ArrayDeserializer_next_element_seed(access, T)

\* MapAccess::next_key_seed of ArrayDeserializer
next_key_seed(access, K) ==
    LET Key(r) ==
            IF ~r.ok THEN AErr(AtIx(access, r.data_ix), r.err)
            ELSE AOk(AtIx(access, r.data_ix), <<r.val>>)
        Item(item) ==
            IF ~item.ok
            THEN AErr(AtIx(access, item.de.data_ix), item.err)
            ELSE IF item.out = <<>> THEN AOk(access, <<>>)
            ELSE Key(Deserialize(K, item.out[1]))
    IN  Item(next_key_deserializer(access.de))

\* MapAccess::next_value_seed of ArrayDeserializer
next_value_seed(access, T) ==
    LET Value(r) ==
            IF ~r.ok THEN AErr(AtIx(access, r.data_ix), r.err)
            ELSE AOk(AtIx(access, r.data_ix), <<r.val>>)
        Item(item) ==
            IF ~item.ok THEN AErr(access, item.err)
            ELSE IF item.out = <<>>
            THEN AErr(access,
                      Error("ArrayElementOverrun", access.de.data_ix, access.de.end_ix))
            ELSE Value(Deserialize(T, item.out[1]))
    IN  Item(next_value_deserializer(access.de))

(***************************************************************************)
(* The visitors of serde that the types of the model use.  A visitor is    *)
(* [kind, ty]: the VecVisitor of Vec<T>, the TupleVisitor of a tuple, the  *)
(* MapVisitor of BTreeMap<K, T>, the derived visitor of a struct, and      *)
(* IgnoredAny.  A visitor handed what it does not accept answers           *)
(* Error::custom (invalid type).                                           *)
(***************************************************************************)
Visitor(T) ==
    [kind |-> CASE T.k = "seq" -> "VecVisitor"
                [] T.k = "tuple" -> "TupleVisitor"
                [] T.k = "map" -> "MapVisitor"
                [] T.k = "struct" -> "StructVisitor"
                [] OTHER -> "IgnoredAny",
     ty |-> T]

IgnoredAny == [k |-> "ignored_any"]

\* a visitor's loop asks for the next element in the state it asked for the
\* last one, which it was given: every later request is answered the same and
\* the call never returns.  This is no Error of error.rs.
NeverReturns(data_ix) == DErr(Error("NeverReturns", 0, 0), data_ix)

\* VecVisitor::visit_seq and IgnoredAny::visit_seq: next_element until None
RECURSIVE VecVisitor_visit_seq(_, _, _)
VecVisitor_visit_seq(T, access, values) ==
    LET Element(r) ==
            IF ~r.ok THEN DErr(r.err, r.access.de.data_ix)
            ELSE IF r.out = <<>> THEN DOk(V("seq", values), r.access.de.data_ix)
            ELSE IF r.access = access THEN NeverReturns(access.de.data_ix)
            ELSE VecVisitor_visit_seq(T, r.access, values \o r.out)
    IN  Element(next_element_seed(access, T))

\* the visit_seq of a tuple and of a derived struct: one next_element for
\* each item, in order; None is invalid_length
RECURSIVE TupleVisitor_visit_seq(_, _, _, _)
TupleVisitor_visit_seq(items, i, access, values) ==
    LET Element(r) ==
            IF ~r.ok THEN DErr(r.err, r.access.de.data_ix)
            ELSE IF r.out = <<>>
            THEN DErr(Error("Deserializing", "invalid length", i - 1),
                      r.access.de.data_ix)
            ELSE TupleVisitor_visit_seq(items, i + 1, r.access, values \o r.out)
    IN  IF i > Len(items) THEN DOk(V("tuple", values), access.de.data_ix)
        ELSE Element(next_element_seed(access, items[i]))

\* the struct value of a derived struct type with the field values
StructValue(T, values) ==
    [t |-> "struct", name |-> T.name,
     v |-> [i \in 1..Len(T.fields) |-> [name |-> T.fields[i].name, value |-> values[i]]]]

StructVisitor_visit_seq(T, access) ==
    LET Fields(r) == IF ~r.ok THEN r ELSE DOk(StructValue(T, r.val.v), r.data_ix)
    IN  Fields(TupleVisitor_visit_seq([i \in 1..Len(T.fields) |-> T.fields[i].ty],
                                      1, access, <<>>))

\* MapVisitor::visit_map and IgnoredAny::visit_map: next_entry until None
RECURSIVE MapVisitor_visit_map(_, _, _, _)
MapVisitor_visit_map(K, T, access, entries) ==
    LET Value(k, r) ==
            IF ~r.ok THEN DErr(r.err, r.access.de.data_ix)
            ELSE IF r.access = access THEN NeverReturns(access.de.data_ix)
            ELSE MapVisitor_visit_map(K, T, r.access,
                                      BTreeMap_insert(entries, k.out[1], r.out[1]))
        Key(k) ==
            IF ~k.ok THEN DErr(k.err, k.access.de.data_ix)
            ELSE IF k.out = <<>> THEN DOk(V("map", entries), k.access.de.data_ix)
            ELSE Value(k, next_value_seed(k.access, T))
    IN  Key(next_key_seed(access, K))

\* the derived visit_map of a struct; slots[i] is <<>> until field i is
\* read.  The key is read as the struct's field identifier.
FieldIndex(T, name) ==
    IF \E i \in 1..Len(T.fields) : T.fields[i].name = name
    THEN CHOOSE i \in 1..Len(T.fields) : T.fields[i].name = name
    ELSE 0

\* the end of visit_map: a field not read is missing_field, which is None
\* for an Option and an error otherwise
StructVisitor_finish(T, slots, data_ix) ==
    LET Missing(i) == slots[i] = <<>> /\ T.fields[i].ty.k # "option"
    IN  IF \E i \in 1..Len(slots) : Missing(i)
        THEN DErr(Error("Deserializing", "missing field",
                        CHOOSE i \in 1..Len(slots) :
                            Missing(i) /\ \A j \in 1..(i - 1) : ~Missing(j)),
                  data_ix)
        ELSE DOk(StructValue(T, [i \in 1..Len(slots) |->
                                    IF slots[i] = <<>> THEN V("none", <<>>)
                                    ELSE slots[i][1]]),
                 data_ix)

RECURSIVE StructVisitor_visit_map(_, _, _)
StructVisitor_visit_map(T, access, slots) ==
    LET Value(field, r) ==
            IF ~r.ok THEN DErr(r.err, r.access.de.data_ix)
            ELSE StructVisitor_visit_map(T, r.access,
                                         IF field = 0 THEN slots
                                         ELSE [slots EXCEPT ![field] = r.out])
        Field(k, field) ==
            IF field # 0 /\ slots[field] # <<>>
            THEN DErr(Error("Deserializing", "duplicate field", field),
                      k.access.de.data_ix)
            ELSE Value(field,
                       next_value_seed(k.access, IF field = 0 THEN IgnoredAny
                                                 ELSE T.fields[field].ty))
        Key(k) ==
            IF ~k.ok THEN DErr(k.err, k.access.de.data_ix)
            ELSE IF k.out = <<>> THEN StructVisitor_finish(T, slots, k.access.de.data_ix)
            ELSE Field(k, FieldIndex(T, k.out[1].v))
    IN  Key(next_key_seed(access, [k |-> "identifier"]))

visit_seq(visitor, access) ==
    LET Ignored(r) == IF ~r.ok THEN r ELSE DOk(V("ignored_any", <<>>), r.data_ix)
    IN  CASE visitor.kind = "VecVisitor" ->
                VecVisitor_visit_seq(visitor.ty.of, access, <<>>)
          [] visitor.kind = "TupleVisitor" ->
                TupleVisitor_visit_seq(visitor.ty.items, 1, access, <<>>)
          [] visitor.kind = "StructVisitor" -> StructVisitor_visit_seq(visitor.ty, access)
          [] visitor.kind = "IgnoredAny" ->
                Ignored(VecVisitor_visit_seq(IgnoredAny, access, <<>>))
          [] OTHER -> DErr(Error("Deserializing", "invalid type", 0), access.de.data_ix)

visit_map(visitor, access) ==
    LET Ignored(r) == IF ~r.ok THEN r ELSE DOk(V("ignored_any", <<>>), r.data_ix)
    IN  CASE visitor.kind = "MapVisitor" ->
                MapVisitor_visit_map(visitor.ty.key, visitor.ty.of, access, <<>>)
          [] visitor.kind = "StructVisitor" ->
                StructVisitor_visit_map(visitor.ty, access,
                                        [i \in 1..Len(visitor.ty.fields) |-> <<>>])
          [] visitor.kind = "IgnoredAny" ->
                Ignored(MapVisitor_visit_map(IgnoredAny, IgnoredAny, access, <<>>))
          [] OTHER -> DErr(Error("Deserializing", "invalid type", 0), access.de.data_ix)

deserialize_option(de0, T) ==
    LET None(aligned) ==
            IF ~aligned.ok THEN DErr(aligned.err, aligned.de.data_ix)
            ELSE DOk(V("none", <<>>), aligned.de.data_ix)
        Some(some) == IF ~some.ok THEN some ELSE DOk(V("some", some.val), some.data_ix)
        Probed(probed) ==
            IF probed.out THEN None(align_reader(probed.de, 8))
            ELSE Some(Deserialize(T, probed.de))
        Variant(de) ==
            IF ~de.ok THEN DErr(de.err, de.de.data_ix)
            ELSE Probed(probe_signature_bytes(de.de, <<SIG_LPAREN, SIG_RPAREN>>))
    IN  Variant(possible_variant(de0))

deserialize_seq(de0, visitor) ==
    LET Aligned(aligned) ==
            IF ~aligned.ok THEN DErr(aligned.err, aligned.de.data_ix)
            ELSE visit_seq(visitor, StructDeserializer(aligned.de))
        Array(arr) ==
            IF ~arr.ok THEN DErr(arr.err, arr.de.data_ix)
            ELSE visit_seq(visitor, ArrayAccess(arr.out))
        Probed(probed) ==
            IF probed.out THEN Aligned(align_reader(probed.de, 8))
            ELSE Array(ArrayDeserializer_new(probed.de))
        Variant(de) ==
            IF ~de.ok THEN DErr(de.err, de.de.data_ix)
            ELSE Probed(probe_signature_bytes(de.de, <<SIG_LPAREN>>))
    IN  Variant(possible_variant(de0))

deserialize_tuple(de0, visitor) ==
    LET Aligned(aligned) ==
            IF ~aligned.ok THEN DErr(aligned.err, aligned.de.data_ix)
            ELSE visit_seq(visitor, StructDeserializer(aligned.de))
        Expected(expected) ==
            IF ~expected.ok THEN DErr(expected.err, expected.de.data_ix)
            ELSE Aligned(align_reader(expected.de, 8))
        Variant(de) ==
            IF ~de.ok THEN DErr(de.err, de.de.data_ix)
            ELSE Expected(expect_signature_byte(de.de, SIG_LPAREN))
    IN  Variant(possible_variant(de0))

deserialize_map(de0, visitor) ==
    LET Array(arr) ==
            IF ~arr.ok THEN DErr(arr.err, arr.de.data_ix)
            ELSE visit_map(visitor, ArrayAccess(arr.out))
        Variant(de) ==
            IF ~de.ok THEN DErr(de.err, de.de.data_ix)
            ELSE Array(ArrayDeserializer_new(de.de))
    IN  Variant(possible_variant(de0))

deserialize_struct(de0, visitor) ==
    LET Array(arr) ==
            IF ~arr.ok THEN DErr(arr.err, arr.de.data_ix)
            ELSE visit_map(visitor, ArrayAccess(arr.out))
        Probed(probed) ==
            IF probed.out THEN visit_seq(visitor, StructDeserializer(probed.de))
            ELSE Array(ArrayDeserializer_new(probed.de))
        Variant(de) ==
            IF ~de.ok THEN DErr(de.err, de.de.data_ix)
            ELSE Probed(probe_signature_bytes(de.de, <<SIG_LPAREN>>))
    IN  Variant(possible_variant(de0))

\* deserialize_any without the arms of h, o and g
RECURSIVE deserialize_any_unreserved(_)
deserialize_any_unreserved(de0) ==
    LET Ignored(r) == IF ~r.ok THEN r ELSE DOk(V("ignored_any", <<>>), r.data_ix)
        Variant(de) ==
            IF ~de.ok THEN DErr(de.err, de.de.data_ix)
            ELSE deserialize_any_unreserved(de.de)
        Visit(sig, c) ==
            CASE c = SIG_y -> Ignored(deserialize_u8(de0))
              [] c = SIG_b -> Ignored(deserialize_bool(de0))
              [] c = SIG_n -> Ignored(deserialize_i16(de0))
              [] c = SIG_q -> Ignored(deserialize_u16(de0))
              [] c = SIG_i -> Ignored(deserialize_i32(de0))
              [] c = SIG_u -> Ignored(deserialize_u32(de0))
              [] c = SIG_x -> Ignored(deserialize_i64(de0))
              [] c = SIG_t -> Ignored(deserialize_u64(de0))
              [] c = SIG_d -> Ignored(deserialize_f64(de0))
              [] c = SIG_s -> Ignored(deserialize_str(de0))
              [] c = SIG_a ->
                    IF sig.out[2] = SIG_LBRACE
                    THEN deserialize_map(de0, Visitor(IgnoredAny))
                    ELSE deserialize_seq(de0, Visitor(IgnoredAny))
              [] c = SIG_LPAREN -> deserialize_tuple(de0, Visitor(IgnoredAny))
              [] c = SIG_v -> Variant(possible_variant(de0))
              [] c = SIG_LBRACE -> deserialize_seq(de0, Visitor(IgnoredAny))
              [] OTHER -> DErr(Error("UnrecognizedSignatureCharacter", c, 0), de0.data_ix)
        Peeked(sig) ==
            IF ~sig.ok THEN DErr(sig.err, de0.data_ix) ELSE Visit(sig, sig.out[1])
    IN  Peeked(peek_single_sig(de0))

\* deserialize_any for the IgnoredAny visitor, which accepts every visit
RECURSIVE deserialize_any(_)
deserialize_any(de0) ==
    LET Ignored(r) == IF ~r.ok THEN r ELSE DOk(V("ignored_any", <<>>), r.data_ix)
        Variant(de) ==
            IF ~de.ok THEN DErr(de.err, de.de.data_ix) ELSE deserialize_any(de.de)
        Visit(sig, c) ==
            CASE c = SIG_y -> Ignored(deserialize_u8(de0))
              [] c = SIG_b -> Ignored(deserialize_bool(de0))
              [] c = SIG_n -> Ignored(deserialize_i16(de0))
              [] c = SIG_q -> Ignored(deserialize_u16(de0))
              [] c = SIG_i -> Ignored(deserialize_i32(de0))
              [] c = SIG_u -> Ignored(deserialize_u32(de0))
              [] c = SIG_x -> Ignored(deserialize_i64(de0))
              [] c = SIG_t -> Ignored(deserialize_u64(de0))
              [] c = SIG_d -> Ignored(deserialize_f64(de0))
              [] c = SIG_s -> Ignored(deserialize_str(de0))
              [] c = SIG_a ->
                    IF sig.out[2] = SIG_LBRACE
                    THEN deserialize_map(de0, Visitor(IgnoredAny))
                    ELSE deserialize_seq(de0, Visitor(IgnoredAny))
              [] c = SIG_LPAREN -> deserialize_tuple(de0, Visitor(IgnoredAny))
              [] c = SIG_v -> Variant(possible_variant(de0))
              [] c = SIG_LBRACE -> deserialize_seq(de0, Visitor(IgnoredAny))
              [] c \in {SIG_h, SIG_o, SIG_g} ->
                    DErr(Error("UnsupportedSignatureCharacter", c, 0), de0.data_ix)
              [] OTHER -> DErr(Error("UnrecognizedSignatureCharacter", c, 0), de0.data_ix)
        Peeked(sig) ==
            IF ~sig.ok THEN DErr(sig.err, de0.data_ix) ELSE Visit(sig, sig.out[1])
    IN  Peeked(peek_single_sig(de0))

deserialize_ignored_any(de) == deserialize_any(de)

Deserialize(T, de) ==
    CASE T.k = "bool" -> deserialize_bool(de)
      [] T.k = "i8" -> deserialize_i8(de)
      [] T.k = "i16" -> deserialize_i16(de)
      [] T.k = "i32" -> deserialize_i32(de)
      [] T.k = "i64" -> deserialize_i64(de)
      [] T.k = "u8" -> deserialize_u8(de)
      [] T.k = "u16" -> deserialize_u16(de)
      [] T.k = "u32" -> deserialize_u32(de)
      [] T.k = "u64" -> deserialize_u64(de)
      [] T.k = "f32" -> deserialize_f32(de)
      [] T.k = "f64" -> deserialize_f64(de)
      [] T.k = "char" -> deserialize_char(de)
      [] T.k = "str" -> deserialize_string(de)
      [] T.k = "identifier" -> deserialize_identifier(de)
      [] T.k = "unit" -> deserialize_unit(de)
      [] T.k = "unit_struct" -> deserialize_unit_struct(de, T.name)
      [] T.k = "option" -> deserialize_option(de, T.of)
      [] T.k = "seq" -> deserialize_seq(de, Visitor(T))
      [] T.k = "tuple" -> deserialize_tuple(de, Visitor(T))
      [] T.k = "map" -> deserialize_map(de, Visitor(T))
      [] T.k = "struct" -> deserialize_struct(de, Visitor(T))
      [] T.k = "ignored_any" -> deserialize_ignored_any(de)

\* from_message::<T>(mesg): [ok, err, val, data_ix] with the cursor the
\* buffer is left with
from_message(T, mesg) ==
    LET Completed(t, completed) ==
            IF ~completed.ok THEN DErr(completed.err, t.data_ix) ELSE t
        Value(buff, t) ==
            IF ~t.ok THEN t
            ELSE Completed(t, DataBuffer_complete([buff EXCEPT !.data_ix = t.data_ix]))
        Buffer(buff) == Value(buff, Deserialize(T, from_message_and_buffer(buff, mesg)))
    IN  Buffer(DataBuffer_from_message(mesg))

(***************************************************************************)
(* The values of the sessions: typed values [ty, val] built from scalar    *)
(* leaves, the composites over them, and the composites over those.        *)
(***************************************************************************)
\* the longest Vec and map built
MaxSeqLen == 2

\* the most fields of the tuples and structs built from the leaves
MaxFields == 2

\* a session begins only while the token counter is at most this
MaxTokenCount == 1

Ty(k) == [k |-> k]

TV(ty, val) == [ty |-> ty, val |-> val]

Leaf(k, v) == TV(Ty(k), V(k, v))

\* text as bytes
Bytes_a == <<97>>
Bytes_b == <<98>>
Bytes_c == <<99>>
Bytes_Hi == <<72, 105>>
Bytes_Hello == <<72, 101, 108, 108, 111>>
Bytes_string == <<115, 116, 114, 105, 110, 103>>

\* IEEE 754 fields of the floats used
F64_3_14 == [s |-> 0, e |-> 1024, hi |-> 4781506, lo |-> 300647711]
F64_0_2 == [s |-> 0, e |-> 1020, hi |-> 5033164, lo |-> 429496730]
F64_8_3 == [s |-> 0, e |-> 1026, hi |-> 314572, lo |-> 429496730]
F32_1_5 == [s |-> 0, e |-> 127, m |-> 4194304]
F32_0_1 == [s |-> 0, e |-> 123, m |-> 5033165]

OptionOf(T) == [k |-> "option", of |-> T]
SeqOf(T) == [k |-> "seq", of |-> T]
MapOf(K, T) == [k |-> "map", key |-> K, of |-> T]
TupleOf(items) == [k |-> "tuple", items |-> items]
StructOf(name, fields) == [k |-> "struct", name |-> name, fields |-> fields]

Leaves ==
    << Leaf("bool", TRUE), Leaf("bool", FALSE),
       Leaf("i8", -5),
       Leaf("i16", -300),
       Leaf("i32", 3), Leaf("i32", -1),
       Leaf("i64", Int64(-5)), Leaf("i64", [hi |-> 1, lo |-> 0]),
       Leaf("u8", 1), Leaf("u8", 255),
       Leaf("u16", 65535),
       Leaf("u32", -294967296),
       Leaf("u64", [hi |-> -1, lo |-> -1]),
       Leaf("f32", F32_1_5), Leaf("f32", F32_0_1),
       Leaf("f64", F64_3_14), Leaf("f64", F64_0_2),
       Leaf("char", 65), Leaf("char", 8364),
       Leaf("str", <<>>), Leaf("str", Bytes_Hi),
       Leaf("unit", <<>>),
       TV([k |-> "unit_struct", name |-> "Foo"],
          [t |-> "unit_struct", name |-> "Foo", v |-> <<>>]),
       TV(OptionOf(Ty("str")), V("none", <<>>)),
       TV(OptionOf(Ty("str")), V("some", V("str", Bytes_string))) >>

\* the kinds of the leaves, each once
LeafKinds ==
    << "bool", "i8", "i16", "i32", "i64", "u8", "u16", "u32", "u64", "f32", "f64",
       "char", "str", "unit", "unit_struct", "option" >>

\* the leaves of one kind: they have one type
LeavesOf(k) == SelectSeq(Leaves, LAMBDA tv : tv.ty.k = k)

\* one leaf of each kind, and None and Some of the option
FieldValues ==
    [i \in 1..Len(LeafKinds) |-> LeavesOf(LeafKinds[i])[1]]
        \o <<LeavesOf("option")[2]>>

\* the lists of n items of list, as a sequence
RECURSIVE SeqsOfLen(_, _)
SeqsOfLen(list, n) ==
    IF n = 0 THEN << <<>> >>
    ELSE LET shorter == SeqsOfLen(list, n - 1)
         IN  [j \in 1..(Len(shorter) * Len(list)) |->
                 Append(shorter[((j - 1) \div Len(list)) + 1],
                        list[((j - 1) % Len(list)) + 1])]

\* the concatenation of F(1) .. F(n)
RECURSIVE ConcatTo(_, _)
ConcatTo(F(_), n) == IF n = 0 THEN <<>> ELSE ConcatTo(F, n - 1) \o F(n)

FieldNames == <<Bytes_a, Bytes_b, Bytes_c>>

\* Vec<T> of the leaves of kind k with n elements
VecsOf(k, n) ==
    LET lists == SeqsOfLen(LeavesOf(k), n)
    IN  [j \in 1..Len(lists) |->
            TV(SeqOf(LeavesOf(k)[1].ty),
               V("seq", [i \in 1..n |-> lists[j][i].val]))]

\* BTreeMap<String, T> of the leaves of kind k with the keys "a", "b", ..
MapsOf(k, n) ==
    LET lists == SeqsOfLen(LeavesOf(k), n)
    IN  [j \in 1..Len(lists) |->
            TV(MapOf(Ty("str"), LeavesOf(k)[1].ty),
               V("map", [i \in 1..n |-> [key |-> V("str", FieldNames[i]),
                                         value |-> lists[j][i].val]]))]

\* the tuple of the typed values tvs
TupleTV(tvs) ==
    TV(TupleOf([i \in 1..Len(tvs) |-> tvs[i].ty]),
       V("tuple", [i \in 1..Len(tvs) |-> tvs[i].val]))

\* the struct named name with the fields a, b, .. of the typed values tvs
StructTV(name, tvs) ==
    TV(StructOf(name, [i \in 1..Len(tvs) |-> [name |-> FieldNames[i], ty |-> tvs[i].ty]]),
       [t |-> "struct", name |-> name,
        v |-> [i \in 1..Len(tvs) |-> [name |-> FieldNames[i], value |-> tvs[i].val]]])

Level1 ==
    LET Vecs(i) == ConcatTo(LAMBDA n : VecsOf(LeafKinds[i], n - 1), MaxSeqLen + 1)
        Maps(i) == ConcatTo(LAMBDA n : MapsOf(LeafKinds[i], n - 1), MaxSeqLen + 1)
        Fields(n) == SeqsOfLen(FieldValues, n)
        Tuples(n) == [j \in 1..Len(Fields(n)) |-> TupleTV(Fields(n)[j])]
        Structs(n) == [j \in 1..Len(Fields(n)) |-> StructTV("S", Fields(n)[j])]
    IN  ConcatTo(Vecs, Len(LeafKinds)) \o ConcatTo(Maps, Len(LeafKinds))
            \o ConcatTo(Tuples, MaxFields) \o ConcatTo(Structs, MaxFields)

\* the nestings of a composite c
Nestings(c) ==
    << TupleTV(<<Leaf("u8", 1), c>>),
       TupleTV(<<c, Leaf("u8", 1)>>),
       TV(OptionOf(c.ty), V("some", c.val)),
       TV(SeqOf(c.ty), V("seq", <<c.val>>)),
       TV(MapOf(Ty("str"), c.ty), V("map", <<[key |-> V("str", Bytes_a), value |-> c.val]>>)),
       StructTV("S", <<Leaf("u8", 1), c>>),
       StructTV("S", <<c>>) >>

Level2 ==
    LET forms == Len(Nestings(Level1[1]))
    IN  [j \in 1..(Len(Level1) * forms) |->
            Nestings(Level1[((j - 1) \div forms) + 1])[((j - 1) % forms) + 1]]

\* the values of the repository's tests, and a map whose keys are not strings
TestValues ==
    LET pair == TupleTV(<<Leaf("str", Bytes_Hello), Leaf("f64", F64_8_3)>>)
        Hi_0_2 == <<Leaf("str", Bytes_Hi), Leaf("f64", F64_0_2)>>
    IN  << TV(SeqOf(Ty("i32")), V("seq", <<V("i32", 1), V("i32", 3), V("i32", 5), V("i32", 6)>>)),
           StructTV("StructSerialize", Hi_0_2),
           StructTV("StructSerialize", Hi_0_2 \o <<pair>>),
           TupleTV(Hi_0_2 \o <<pair>>),
           StructTV("S", <<>>),
           TV(MapOf(Ty("i32"), Ty("i32")),
              V("map", <<[key |-> V("i32", 1), value |-> V("i32", 5)]>>)) >>

Universe == Leaves \o TestValues \o Level1 \o Level2

Policies == {"DefaultSerializerPolicy", "StronglyTypedSerializerPolicy"}

\* the types from_message is asked for, for a message made from a value of
\* type T: T itself, and for a tuple the struct of the same fields and the
\* tuple without its last item
Targets(T) ==
    <<T>> \o
    (IF T.k = "tuple"
     THEN <<StructOf("StructSerialize",
                     [i \in 1..Len(T.items) |-> [name |-> FieldNames[i], ty |-> T.items[i]]])>>
          \o (IF Len(T.items) > 1
              THEN <<TupleOf(SubSeq(T.items, 1, Len(T.items) - 1))>>
              ELSE <<>>)
     ELSE <<>>)

Unset == [k |-> "unset"]

\* two builders as the encoder has them for an array: main is the message
\* so far (prev), contents the array's items; ops and contents_ops are the
\* operations asked of them, open and contents_open the tokens of their
\* lengths not yet finished, innermost last
BuildNew ==
    [main |-> MessageBuilder_new, contents |-> MessageBuilder_new,
     ops |-> <<>>, contents_ops |-> <<>>, open |-> <<>>, contents_open |-> <<>>]

\* no Deserializer yet.  state is idle, open or failed; op, arg, hit and out
\* are the last operation on the cursors, its argument, whether it succeeded
\* (for probe_signature_bytes, the bool returned) and the slice it returned
CursorIdle ==
    [state |-> "idle", de |-> Deserializer(<<>>, 0, <<>>, 0), op |-> "none",
     arg |-> <<>>, hit |-> TRUE, out |-> <<>>]

\* the threads of the process that encode at the same time
Threads == {1, 2}

\* a thread that is not encoding
ThreadIdle ==
    [pc |-> "idle", value |-> Unset, policy |-> "DefaultSerializerPolicy",
     tokens |-> <<>>, output |-> Unset]

Init ==
    /\ pc = "idle"
    /\ session_value = Unset
    /\ session_type = Unset
    /\ session_policy = "DefaultSerializerPolicy"
    /\ session_target = Unset
    /\ session_message = Unset
    /\ session_result = Unset
    /\ GLOBAL_LENGTH_TOKEN_COUNT = 0
    /\ align_call = Unset
    /\ threads = [t \in Threads |-> ThreadIdle]
    /\ build = BuildNew
    /\ cursor = CursorIdle

\* the caller has a value of the universe and a policy
BeginSession ==
    /\ pc = "idle"
    /\ GLOBAL_LENGTH_TOKEN_COUNT <= MaxTokenCount
    /\ pc' = "ready"
    /\ \E i \in 1..Len(Universe) :
          /\ session_value' = Universe[i].val
          /\ session_type' = Universe[i].ty
    /\ session_policy' \in Policies
    /\ UNCHANGED <<session_target, session_message, session_result,
                   GLOBAL_LENGTH_TOKEN_COUNT, align_call, threads, build, cursor>>

\* serialize_with_policy(&session_value, session_policy)
SerializeWithPolicy ==
    /\ pc = "ready"
    /\ LET r == serialize_with_policy(session_value, session_policy,
                                      GLOBAL_LENGTH_TOKEN_COUNT)
       IN  /\ session_message' = [ok |-> r.ok, err |-> r.err, message |-> r.message]
           /\ GLOBAL_LENGTH_TOKEN_COUNT' = r.count
           /\ pc' = IF r.ok THEN "serialized" ELSE "done"
    /\ UNCHANGED <<session_value, session_type, session_policy, session_target,
                   session_result, align_call, threads, build, cursor>>

\* from_message::<T>(&message) for one of the target types T
FromMessage ==
    /\ pc = "serialized"
    /\ \E i \in 1..Len(Targets(session_type)) :
          /\ session_target' = Targets(session_type)[i]
          /\ session_result' = from_message(Targets(session_type)[i],
                                            session_message.message)
    /\ pc' = "done"
    /\ UNCHANGED <<session_value, session_type, session_policy, session_message,
                   GLOBAL_LENGTH_TOKEN_COUNT, align_call, threads, build, cursor>>

\* the session's values are dropped; the token counter is never reset
EndSession ==
    /\ pc = "done"
    /\ pc' = "idle"
    /\ session_value' = Unset
    /\ session_type' = Unset
    /\ session_policy' = "DefaultSerializerPolicy"
    /\ session_target' = Unset
    /\ session_message' = Unset
    /\ session_result' = Unset
    /\ UNCHANGED <<GLOBAL_LENGTH_TOKEN_COUNT, align_call, threads, build, cursor>>

Next == BeginSession \/ SerializeWithPolicy \/ FromMessage \/ EndSession

Spec == Init /\ [][Next]_vars

(***************************************************************************)
(* Messages from a peer.  Message has public fields, so from_message is    *)
(* also called with a signature and data no encoder of this crate made:    *)
(* the data is a run of a few chunks, the signature one of a list, and the *)
(* type asked for one of a list.                                           *)
(***************************************************************************)
\* the most chunks in the data of a received message
MaxChunks == 2

WireChunks ==
    << <<1>>, <<0, 0, 0, 0>>, <<1, 0, 0, 0>>, <<2, 0, 0, 0>>, <<0, 1, 0, 0>> >>

RECURSIVE Flatten(_)
Flatten(seqs) == IF seqs = <<>> THEN <<>> ELSE Head(seqs) \o Flatten(Tail(seqs))

\* the datas of n chunks
WireDataOf(n) ==
    [j \in 1..Len(SeqsOfLen(WireChunks, n)) |-> Flatten(SeqsOfLen(WireChunks, n)[j])]

WireData == ConcatTo(LAMBDA n : WireDataOf(n - 1), MaxChunks + 1)

\* the datas of strings: "a", "a" followed by 1, the byte 255, the two bytes
\* of U+00E9, a length of 2 over one byte and its NUL, "a" without its NUL
WireStrings ==
    << <<1, 0, 0, 0, 97, 0>>, <<1, 0, 0, 0, 97, 1>>, <<1, 0, 0, 0, 255, 0>>,
       <<2, 0, 0, 0, 195, 169, 0>>, <<2, 0, 0, 0, 97, 0>>, <<1, 0, 0, 0, 97>> >>

\* the datas of arrays: of one and two u32, a dict of one entry, a dict whose
\* key ends at the end of the array, a dict of three bytes over two entries
WireArrays ==
    << <<4, 0, 0, 0, 1, 0, 0, 0>>,
       <<8, 0, 0, 0, 1, 0, 0, 0, 2, 0, 0, 0>>,
       <<2, 0, 0, 0, 0, 0, 0, 0, 7, 9>>,
       <<1, 0, 0, 0, 0, 0, 0, 0, 7>>,
       <<3, 0, 0, 0, 0, 0, 0, 0, 7, 9, 0, 0, 0, 0, 0, 0, 5, 6>> >>

\* the datas a peer sends
\* the datas of i16s: -5, 257, 128, 127, 255, -32768, -128
WireShorts ==
    << <<251, 255>>, <<1, 1>>, <<128, 0>>, <<127, 0>>, <<255, 0>>, <<0, 128>>,
       <<128, 255>> >>

WireMessages == ((WireData \o WireStrings) \o WireArrays) \o WireShorts

\* y, yy, b, u, d, s, (yb), (), ay, a(), a{()()}, a{yy}, v, h, o, g, z, ), }, ah,
\* [, ], au, n
WireSignatures ==
    << <<SIG_y>>, <<SIG_y, SIG_y>>, <<SIG_b>>, <<SIG_u>>, <<SIG_d>>, <<SIG_s>>,
       <<SIG_LPAREN, SIG_y, SIG_b, SIG_RPAREN>>,
       <<SIG_LPAREN, SIG_RPAREN>>,
       <<SIG_a, SIG_y>>,
       <<SIG_a, SIG_LPAREN, SIG_RPAREN>>,
       <<SIG_a, SIG_LBRACE, SIG_LPAREN, SIG_RPAREN, SIG_LPAREN, SIG_RPAREN, SIG_RBRACE>>,
       <<SIG_a, SIG_LBRACE, SIG_y, SIG_y, SIG_RBRACE>>,
       <<SIG_v>>, <<SIG_h>>, <<SIG_o>>, <<SIG_g>>, <<122>>,
       <<SIG_RPAREN>>, <<SIG_RBRACE>>, <<SIG_a, SIG_h>>,
       <<SIG_LBRACKET>>, <<SIG_RBRACKET>>, <<SIG_a, SIG_u>>, <<SIG_n>> >>

WireTypes ==
    << Ty("bool"), Ty("i8"), Ty("i16"), Ty("i32"), Ty("i64"), Ty("u8"), Ty("u16"),
       Ty("u32"), Ty("u64"), Ty("f32"), Ty("f64"), Ty("char"), Ty("str"), Ty("unit"),
       [k |-> "unit_struct", name |-> "Foo"],
       OptionOf(Ty("u8")), SeqOf(Ty("unit")), SeqOf(Ty("u8")), SeqOf(Ty("u32")),
       TupleOf(<<Ty("u8"), Ty("bool")>>),
       MapOf(Ty("unit"), Ty("unit")), MapOf(Ty("u8"), Ty("u8")),
       StructOf("S", <<[name |-> Bytes_a, ty |-> Ty("u8")]>>),
       IgnoredAny >>

\* a caller has a Message of a peer and a type to read from it
ReceiveMessage ==
    /\ pc = "idle"
    /\ pc' = "serialized"
    /\ \E i \in 1..Len(WireSignatures), j \in 1..Len(WireMessages) :
          session_message' = [ok |-> TRUE, err |-> <<>>,
                              message |-> [data |-> WireMessages[j],
                                           signature |-> WireSignatures[i]]]
    /\ \E i \in 1..Len(WireTypes) : session_type' = WireTypes[i]
    /\ UNCHANGED <<session_value, session_policy, session_target, session_result,
                   GLOBAL_LENGTH_TOKEN_COUNT, align_call, threads, build, cursor>>

WireNext == ReceiveMessage \/ FromMessage \/ EndSession

WireSpec == Init /\ [][WireNext]_vars

(***************************************************************************)
(* Calls of align.  The callers (align_vec of the builder, align_reader of *)
(* the decoder) pass a length or a cursor and one of the alignments of the *)
(* alignment table.                                                        *)
(***************************************************************************)
\* the largest index align is called with
MaxIx == 40

\* the powers of two align is called with
Alignments == {1, 2, 4, 8, 16}

\* align(ix, alignment)
Align ==
    /\ \E ix \in 0..MaxIx, alignment \in Alignments :
          align_call' = [ix |-> ix, alignment |-> alignment,
                         new_size |-> align(ix, alignment)]
    /\ UNCHANGED <<pc, session_value, session_type, session_policy, session_message,
                   session_result, session_target, GLOBAL_LENGTH_TOKEN_COUNT, threads,
                   build, cursor>>

\* align(new_size, alignment) on the result of the last call
AlignAgain ==
    /\ align_call # Unset
    /\ align_call.new_size <= MaxIx
    /\ align_call' = [ix |-> align_call.new_size, alignment |-> align_call.alignment,
                      new_size |-> align(align_call.new_size, align_call.alignment)]
    /\ UNCHANGED <<pc, session_value, session_type, session_policy, session_message,
                   session_result, session_target, GLOBAL_LENGTH_TOKEN_COUNT, threads,
                   build, cursor>>

AlignNext == Align \/ AlignAgain

AlignSpec == Init /\ [][AlignNext]_vars

(***************************************************************************)
(* Encoding sessions of several threads.  A session's builders are its     *)
(* own; the one thing the threads share is the counter of LengthToken::next, *)
(* whose fetch_add is the one atomic step.  A thread's start_length calls  *)
(* come in the order of its own program, which is the order of the calls   *)
(* of the session run alone.                                               *)
(***************************************************************************)
\* the values the threads encode: without an array, with one, with arrays
\* side by side and with arrays within an array
ThreadValues ==
    << Leaf("u8", 1),
       VecsOf("u8", 2)[2],
       TupleTV(<<VecsOf("u8", 1)[1], VecsOf("u8", 2)[1]>>),
       TV(SeqOf(SeqOf(Ty("u8"))),
          V("seq", <<V("seq", <<V("u8", 1)>>), V("seq", <<V("u8", 255), V("u8", 1)>>)>>)),
       MapsOf("u8", 1)[1],
       StructTV("S", <<VecsOf("u8", 1)[2]>>) >>

\* the session's run with the tokens 0, 1, .. in the order of its calls
SerializeAlone(val, config) == Serialize(val, ReadySerializer_new, config, 0)

\* the number of start_length calls of the session
TokensNeeded(val, config) == SerializeAlone(val, config).count

\* the builder whose k-th start_length call got tokens[k]
Relabel(b, tokens) ==
    [i \in 1..Len(b) |->
        IF b[i].kind = "AlignmentSlice" THEN b[i]
        ELSE [b[i] EXCEPT !.token = tokens[b[i].token + 1]]]

\* serialize_with_policy of a thread whose start_length calls got tokens
serialize_with_tokens(val, config, tokens) ==
    LET Complete(done_serializer) ==
            IF ~done_serializer.ok
            THEN [ok |-> FALSE, err |-> done_serializer.err, message |-> <<>>,
                  panicked |-> FALSE]
            ELSE [ok |-> TRUE, err |-> <<>>,
                  message |-> DoneSerializer_complete(
                                  [builder |-> Relabel(done_serializer.mesg.builder, tokens),
                                   signature |-> done_serializer.mesg.signature]),
                  panicked |-> complete(Relabel(done_serializer.mesg.builder,
                                                tokens)).panicked]
    IN  Complete(SerializeAlone(val, config))

\* a thread calls serialize_with_policy
ThreadBegin(t) ==
    /\ threads[t].pc = "idle"
    /\ GLOBAL_LENGTH_TOKEN_COUNT <= MaxTokenCount
    /\ \E i \in 1..Len(ThreadValues), config \in Policies :
          threads' = [threads EXCEPT ![t] =
                         [pc |-> "encoding", value |-> ThreadValues[i].val,
                          policy |-> config, tokens |-> <<>>, output |-> Unset]]
    /\ UNCHANGED <<pc, session_value, session_type, session_policy, session_message,
                   session_result, session_target, GLOBAL_LENGTH_TOKEN_COUNT,
                   align_call, build, cursor>>

\* a start_length whose token is a load of the counter that stores nothing
ThreadStartLength_load_only(t) ==
    /\ threads[t].pc = "encoding"
    /\ Len(threads[t].tokens) < TokensNeeded(threads[t].value, threads[t].policy)
    /\ threads' = [threads EXCEPT ![t].tokens = Append(@, GLOBAL_LENGTH_TOKEN_COUNT)]
    /\ UNCHANGED <<pc, session_value, session_type, session_policy, session_message,
                   session_result, session_target, GLOBAL_LENGTH_TOKEN_COUNT,
                   align_call, build, cursor>>

\* the thread's next start_length: LengthToken::next on the shared counter
ThreadStartLength(t) ==
    /\ threads[t].pc = "encoding"
    /\ Len(threads[t].tokens) < TokensNeeded(threads[t].value, threads[t].policy)
    /\ threads' = [threads EXCEPT ![t].tokens =
                      Append(@, LengthToken_next(GLOBAL_LENGTH_TOKEN_COUNT).token)]
    /\ GLOBAL_LENGTH_TOKEN_COUNT' = LengthToken_next(GLOBAL_LENGTH_TOKEN_COUNT).count
    /\ UNCHANGED <<pc, session_value, session_type, session_policy, session_message,
                   session_result, session_target, align_call, build, cursor>>

\* the thread's DoneSerializer::complete
ThreadComplete(t) ==
    /\ threads[t].pc = "encoding"
    /\ Len(threads[t].tokens) = TokensNeeded(threads[t].value, threads[t].policy)
    /\ threads' = [threads EXCEPT
                      ![t].pc = "done",
                      ![t].output = serialize_with_tokens(threads[t].value,
                                                          threads[t].policy,
                                                          threads[t].tokens)]
    /\ UNCHANGED <<pc, session_value, session_type, session_policy, session_message,
                   session_result, session_target, GLOBAL_LENGTH_TOKEN_COUNT,
                   align_call, build, cursor>>

\* the thread's message is dropped
ThreadEnd(t) ==
    /\ threads[t].pc = "done"
    /\ threads' = [threads EXCEPT ![t] = ThreadIdle]
    /\ UNCHANGED <<pc, session_value, session_type, session_policy, session_message,
                   session_result, session_target, GLOBAL_LENGTH_TOKEN_COUNT,
                   align_call, build, cursor>>

ThreadNext ==
    \E t \in Threads :
        ThreadBegin(t) \/ ThreadStartLength(t) \/ ThreadComplete(t) \/ ThreadEnd(t)

ThreadSpec == Init /\ [][ThreadNext]_vars

(***************************************************************************)
(* The builder under a free sequence of the operations the encoder issues. *)
(***************************************************************************)
\* the most operations asked of the two builders together before complete()
MaxBuilderOps == 4

\* the alignments and the write sizes the encoder asks for
BuilderAlignments == {2, 4, 8}

WriteSizes == {1, 3}

\* the bytes the encoder writes: none of them zero, as padding is
WrittenBytes(n) == [k \in 1..n |-> 255]

Op(op, arg) == [op |-> op, arg |-> arg]

BuilderNames == {"main", "contents"}

BuilderOf(which) == IF which = "main" THEN build.main ELSE build.contents

OpsOf(which) == IF which = "main" THEN build.ops ELSE build.contents_ops

OpenOf(which) == IF which = "main" THEN build.open ELSE build.contents_open

\* the builder named which after one operation: its components, its log
\* and its open lengths
Asked(which, b, ops, opn) ==
    IF which = "main"
    THEN [build EXCEPT !.main = b, !.ops = ops, !.open = opn]
    ELSE [build EXCEPT !.contents = b, !.contents_ops = ops, !.contents_open = opn]

BuilderRoom == Len(build.ops) + Len(build.contents_ops) < MaxBuilderOps

BuilderFrame ==
    UNCHANGED <<pc, session_value, session_type, session_policy, session_message,
                session_result, session_target, align_call, threads, cursor>>

\* MessageBuilder::align
BuilderAlign ==
    /\ BuilderRoom
    /\ \E which \in BuilderNames, a \in BuilderAlignments :
           build' = Asked(which, MessageBuilder_align(BuilderOf(which), a),
                          Append(OpsOf(which), Op("align", a)), OpenOf(which))
    /\ UNCHANGED GLOBAL_LENGTH_TOKEN_COUNT
    /\ BuilderFrame

\* MessageBuilder::prepare_write and the caller's copy into the slice returned
BuilderWrite ==
    /\ BuilderRoom
    /\ \E which \in BuilderNames, n \in WriteSizes :
           build' = Asked(which,
                          copy_into_top(prepare_write(BuilderOf(which), n),
                                        WrittenBytes(n)),
                          Append(OpsOf(which), Op("write", n)), OpenOf(which))
    /\ UNCHANGED GLOBAL_LENGTH_TOKEN_COUNT
    /\ BuilderFrame

\* MessageBuilder::start_length
BuilderStartLength ==
    /\ BuilderRoom
    /\ GLOBAL_LENGTH_TOKEN_COUNT <= MaxTokenCount
    /\ \E which \in BuilderNames :
           LET Started(res) ==
                   /\ build' = Asked(which, res.builder,
                                     Append(OpsOf(which), Op("start_length", res.token)),
                                     Append(OpenOf(which), res.token))
                   /\ GLOBAL_LENGTH_TOKEN_COUNT' = res.count
           IN  Started(start_length(BuilderOf(which), GLOBAL_LENGTH_TOKEN_COUNT))
    /\ BuilderFrame

\* MessageBuilder::finish_length, with the token of the innermost open length
BuilderFinishLength ==
    /\ BuilderRoom
    /\ \E which \in BuilderNames :
           /\ OpenOf(which) # <<>>
           /\ LET Finished(token) ==
                      build' = Asked(which, finish_length(BuilderOf(which), token),
                                     Append(OpsOf(which), Op("finish_length", token)),
                                     SubSeq(OpenOf(which), 1, Len(OpenOf(which)) - 1))
              IN  Finished(OpenOf(which)[Len(OpenOf(which))])
    /\ UNCHANGED GLOBAL_LENGTH_TOKEN_COUNT
    /\ BuilderFrame

\* MessageBuilder::append_data: the finished contents spliced onto main,
\* and a fresh builder for the next contents
BuilderAppendData ==
    /\ build.contents_open = <<>>
    /\ build' = [build EXCEPT !.main = append_data(build.main, build.contents),
                              !.ops = build.ops \o build.contents_ops,
                              !.contents = MessageBuilder_new,
                              !.contents_ops = <<>>]
    /\ UNCHANGED GLOBAL_LENGTH_TOKEN_COUNT
    /\ BuilderFrame

\* MessageBuilder::complete consumes the builder; the next message starts anew
BuilderComplete ==
    /\ build.ops # <<>>
    /\ ~complete(build.main).panicked
    /\ build' = BuildNew
    /\ UNCHANGED GLOBAL_LENGTH_TOKEN_COUNT
    /\ BuilderFrame

BuilderNext ==
    \/ BuilderAlign
    \/ BuilderWrite
    \/ BuilderStartLength
    \/ BuilderFinishLength
    \/ BuilderAppendData
    \/ BuilderComplete

BuilderSpec == Init /\ [][BuilderNext]_vars


(***************************************************************************)
(* The cursor operations of a Deserializer, in any order.                  *)
(***************************************************************************)
\* signatures a decoder is made over: single types, several types, and
\* signatures whose brackets do not close
CursorSignatures ==
    << <<SIG_y>>, <<SIG_a, SIG_a, SIG_y>>, <<SIG_a, SIG_LBRACE, SIG_s, SIG_v, SIG_RBRACE>>,
       <<SIG_LPAREN, SIG_y, SIG_LPAREN, SIG_b, SIG_RPAREN, SIG_RPAREN, SIG_u>>,
       <<SIG_v, SIG_LPAREN, SIG_RPAREN>>,
       <<SIG_y, SIG_LPAREN, SIG_LPAREN, SIG_y, SIG_RPAREN>>,
       <<SIG_a, SIG_LPAREN, SIG_y>>,
       <<SIG_a, SIG_LBRACKET, SIG_y, SIG_RBRACKET, SIG_a>>,
       <<SIG_y, SIG_a>> >>

CursorDatas == << <<>>, <<1, 2, 3, 4, 5, 6, 7, 8, 9>> >>

ReadSizes == {0, 1, 4}

ProbedBytes ==
    { <<SIG_v>>, <<SIG_LPAREN, SIG_RPAREN>>, <<SIG_a, SIG_LBRACE>>, <<SIG_y>> }

ExpectedBytes == {SIG_a, SIG_LPAREN, SIG_RPAREN, SIG_y, SIG_u}

CursorFrame ==
    UNCHANGED <<pc, session_value, session_type, session_policy, session_message,
                session_result, session_target, GLOBAL_LENGTH_TOKEN_COUNT, align_call,
                threads, build>>

\* the cursor after an operation that returned res
Operated(op, arg, res) ==
    [state |-> IF res.ok THEN "open" ELSE "failed", de |-> res.de, op |-> op,
     arg |-> arg, hit |-> res.ok, out |-> res.out]

\* Deserializer::from_message_and_buffer over a fresh DataBuffer
CursorBegin ==
    /\ cursor.state = "idle"
    /\ \E i \in 1..Len(CursorSignatures), j \in 1..Len(CursorDatas) :
           LET Begun(mesg) ==
                   cursor' = [CursorIdle EXCEPT
                                 !.state = "open",
                                 !.de = from_message_and_buffer(
                                            DataBuffer_from_message(mesg), mesg)]
           IN  Begun([data |-> CursorDatas[j], signature |-> CursorSignatures[i]])
    /\ CursorFrame

CursorAlignReader ==
    /\ cursor.state = "open"
    /\ \E a \in Alignments :
           cursor' = Operated("align_reader", <<a>>, align_reader(cursor.de, a))
    /\ CursorFrame

CursorRead ==
    /\ cursor.state = "open"
    /\ \E n \in ReadSizes : cursor' = Operated("read", <<n>>, read(cursor.de, n))
    /\ CursorFrame

CursorGrabSingleSig ==
    /\ cursor.state = "open"
    /\ cursor' = Operated("grab_single_sig", <<>>, grab_single_sig(cursor.de))
    /\ CursorFrame

CursorPeekSingleSig ==
    /\ cursor.state = "open"
    /\ cursor' = Operated("peek_single_sig", <<>>, peek_single_sig(cursor.de))
    /\ CursorFrame

\* probe_signature_bytes returns a bool, never an error
CursorProbeSignatureBytes ==
    /\ cursor.state = "open"
    /\ \E expected \in ProbedBytes :
           LET Probed(res) ==
                   cursor' = [state |-> "open", de |-> res.de,
                              op |-> "probe_signature_bytes", arg |-> expected,
                              hit |-> res.out, out |-> <<>>]
           IN  Probed(probe_signature_bytes(cursor.de, expected))
    /\ CursorFrame

CursorExpectSignatureByte ==
    /\ cursor.state = "open"
    /\ \E expected \in ExpectedBytes :
           cursor' = Operated("expect_signature_byte", <<expected>>,
                              expect_signature_byte(cursor.de, expected))
    /\ CursorFrame

\* Deserializer::subsidiary: a new decoder over the type grabbed, on the
\* same DataBuffer
CursorSubsidiary ==
    /\ cursor.state = "open"
    /\ LET Sub(res) ==
               cursor' = Operated("subsidiary", <<>>,
                                  IF ~res.ok THEN res
                                  ELSE DeOk(Deserializer(res.out, 0, res.de.data,
                                                         res.de.data_ix),
                                            res.out))
       IN  Sub(grab_single_sig(cursor.de))
    /\ CursorFrame

\* the decoder is dropped, after an error or when its caller is done
CursorEnd ==
    /\ cursor.state \in {"open", "failed"}
    /\ cursor.op # "none"
    /\ cursor' = CursorIdle
    /\ CursorFrame

CursorNext ==
    \/ CursorBegin
    \/ CursorAlignReader
    \/ CursorRead
    \/ CursorGrabSingleSig
    \/ CursorPeekSingleSig
    \/ CursorProbeSignatureBytes
    \/ CursorExpectSignatureByte
    \/ CursorSubsidiary
    \/ CursorEnd

CursorSpec == Init /\ [][CursorNext]_vars

(***************************************************************************)
(* Properties.                                                             *)
(***************************************************************************)
ScalarKinds ==
    {"bool", "i8", "i16", "i32", "i64", "u8", "u16", "u32", "u64", "f32", "f64",
     "char", "str"}

\* a and b, both of type T, are equal
RECURSIVE ValEq(_, _, _)
ValEq(T, a, b) ==
    CASE T.k \in ScalarKinds -> a.v = b.v
      [] T.k \in {"unit", "unit_struct"} -> TRUE
      [] T.k = "option" ->
            /\ a.t = b.t
            /\ a.t = "some" => ValEq(T.of, a.v, b.v)
      [] T.k = "seq" ->
            /\ Len(a.v) = Len(b.v)
            /\ \A i \in 1..Len(a.v) : ValEq(T.of, a.v[i], b.v[i])
      [] T.k = "tuple" ->
            \A i \in 1..Len(T.items) : ValEq(T.items[i], a.v[i], b.v[i])
      [] T.k = "map" ->
            /\ Len(a.v) = Len(b.v)
            /\ \A i \in 1..Len(a.v) :
                  /\ ValEq(T.key, a.v[i].key, b.v[i].key)
                  /\ ValEq(T.of, a.v[i].value, b.v[i].value)
      [] T.k = "struct" ->
            \A i \in 1..Len(T.fields) :
                ValEq(T.fields[i].ty, a.v[i].value, b.v[i].value)

\* the shapes of the round trip: every map in T has string keys
RECURSIVE BoundedShape(_)
BoundedShape(T) ==
    CASE T.k \in {"option", "seq"} -> BoundedShape(T.of)
      [] T.k = "tuple" -> \A i \in 1..Len(T.items) : BoundedShape(T.items[i])
      [] T.k = "map" -> T.key.k = "str" /\ BoundedShape(T.of)
      [] T.k = "struct" -> \A i \in 1..Len(T.fields) : BoundedShape(T.fields[i].ty)
      [] OTHER -> TRUE

\* the session has serialized its value and asked from_message for the
\* value's own type
RoundTripDone ==
    /\ pc = "done"
    /\ session_message.ok
    /\ session_target = session_type

\* from_message returned the session's value
RoundTripped ==
    /\ session_result.ok
    /\ ValEq(session_type, session_result.val, session_value)

\* C1: for every value of the bounded shapes and both policies,
\* serialize_with_policy succeeds and from_message of its message succeeds
\* and returns a value equal to the original.
C1_RoundTrip ==
    (pc = "done" /\ BoundedShape(session_type)) =>
        /\ session_message.ok
        /\ session_target = session_type => RoundTripped

\* the failing round trip of the smallest value found: (1u8, 1.5f32)
C1_FailingInput ==
    /\ RoundTripDone
    /\ session_type = TupleOf(<<Ty("u8"), Ty("f32")>>)
    /\ ~session_result.ok
    /\ session_result.err.kind = "LeftoverData"

\* the shapes the repository's tests round-trip at the top level
TestShape(T, val) ==
    \/ T.k \in {"bool", "i32", "f64", "unit", "unit_struct"}
    \/ T = OptionOf(Ty("str"))
    \/ T = SeqOf(Ty("i32")) /\ Len(val.v) > 0
    \/ /\ T.k = "struct"
       /\ \/ [i \in 1..Len(T.fields) |-> T.fields[i].ty] = <<Ty("str"), Ty("f64")>>
          \/ [i \in 1..Len(T.fields) |-> T.fields[i].ty]
                = <<Ty("str"), Ty("f64"), TupleOf(<<Ty("str"), Ty("f64")>>)>>

TestTuple == TupleOf(<<Ty("str"), Ty("f64"), TupleOf(<<Ty("str"), Ty("f64")>>)>>)

\* C2: under the Default policy every top-level value of the shapes of the
\* tests round-trips (a Vec<i32> through the signature av, a named struct
\* through a{sv}), and the message of a (string, f64, (string, f64)) tuple
\* decodes into the named struct with the same field values.
C2_TestShapesRoundTrip ==
    (pc = "done" /\ session_policy = "DefaultSerializerPolicy") =>
        /\ TestShape(session_type, session_value) =>
              /\ session_message.ok
              /\ session_type.k = "seq" =>
                    session_message.message.signature = <<SIG_a, SIG_v>>
              /\ session_type.k = "struct" =>
                    session_message.message.signature
                        = <<SIG_a, SIG_LBRACE, SIG_s, SIG_v, SIG_RBRACE>>
              /\ session_target = session_type => RoundTripped
        /\ (session_type = TestTuple /\ session_target.k = "struct") =>
              /\ session_result.ok
              /\ session_result.val.t = "struct"
              /\ \A i \in 1..3 :
                    /\ session_result.val.v[i].name = FieldNames[i]
                    /\ ValEq(TestTuple.items[i], session_result.val.v[i].value,
                             session_value.v[i])

\* the struct {a: "Hi", b: 0.2, c: ("Hello", 8.3)} has been round-tripped
C2_Witness ==
    /\ RoundTripDone
    /\ session_policy = "DefaultSerializerPolicy"
    /\ session_type.k = "struct"
    /\ Len(session_type.fields) = 3
    /\ TestShape(session_type, session_value)
    /\ RoundTripped
    /\ session_value.v[1].value.v = Bytes_Hi

\* the root decode of the finished session, run again
RootDecode ==
    Deserialize(session_target,
                from_message_and_buffer(DataBuffer_from_message(session_message.message),
                                        session_message.message))

\* C10: from_message returns the decoded value only when the data cursor
\* ends exactly at data.len; when the root decode succeeds with n > 0 bytes
\* unconsumed it returns LeftoverData(n) and no value.
C10_LeftoverData ==
    (pc = "done" /\ session_message.ok) =>
        LET n == Len(session_message.message.data) - RootDecode.data_ix
        IN  /\ session_result.ok =>
                  /\ RootDecode.ok
                  /\ n = 0
                  /\ session_result.val = RootDecode.val
            /\ (RootDecode.ok /\ n > 0) =>
                  /\ ~session_result.ok
                  /\ session_result.err.kind = "LeftoverData"
                  /\ session_result.err.a = n
                  /\ session_result.val = <<>>

\* a two-item tuple's message was decoded as its first item alone, leaving
\* the second item's bytes
C10_Witness ==
    /\ pc = "done"
    /\ session_message.ok
    /\ session_type.k = "tuple"
    /\ session_target.k = "tuple"
    /\ Len(session_target.items) < Len(session_type.items)
    /\ RootDecode.ok
    /\ ~session_result.ok
    /\ session_result.err.kind = "LeftoverData"
    /\ session_result.err.a > 0

(***************************************************************************)
(* The grammar of signatures and the wire layout, as the format defines    *)
(* them, against which the produced messages are read.                     *)
(***************************************************************************)
BasicCodes ==
    {SIG_y, SIG_b, SIG_n, SIG_q, SIG_i, SIG_u, SIG_x, SIG_t, SIG_d, SIG_s, SIG_o,
     SIG_g, SIG_h, SIG_v}

\* the index just past the single complete type that starts at sig[i], or 0
\* when there is none; after_a says that sig[i] directly follows an 'a'
RECURSIVE TypeEnd(_, _, _)
RECURSIVE TypesEnd(_, _, _)
TypeEnd(sig, i, after_a) ==
    IF i > Len(sig) THEN 0
    ELSE CASE sig[i] \in BasicCodes -> i + 1
           [] sig[i] = SIG_a -> TypeEnd(sig, i + 1, TRUE)
           [] sig[i] = SIG_LPAREN -> TypesEnd(sig, i + 1, SIG_RPAREN)
           [] sig[i] = SIG_LBRACE /\ after_a -> TypesEnd(sig, i + 1, SIG_RBRACE)
           [] OTHER -> 0

\* the index just past closer, after the complete types from sig[i] up to it
TypesEnd(sig, i, closer) ==
    IF i > Len(sig) THEN 0
    ELSE IF sig[i] = closer THEN i + 1
    ELSE LET e == TypeEnd(sig, i, FALSE)
         IN  IF e = 0 THEN 0 ELSE TypesEnd(sig, e, closer)

\* sig is a sequence of complete types
RECURSIVE WellFormedFrom(_, _)
WellFormedFrom(sig, i) ==
    IF i = Len(sig) + 1 THEN TRUE
    ELSE LET e == TypeEnd(sig, i, FALSE)
         IN  e # 0 /\ WellFormedFrom(sig, e)

WellFormedSignature(sig) == WellFormedFrom(sig, 1)

\* C6: every message returned by serialize / serialize_with_policy has a
\* well-formed signature: ( ) and { } balance and nest, every 'a' is
\* followed by exactly one complete single type, and a dict entry { } comes
\* only directly after an 'a'.
C6_WellFormedSignature ==
    (pc \in {"serialized", "done"} /\ session_message.ok) =>
        WellFormedSignature(session_message.message.signature)

\* a message with an array of dict entries nested in a struct: (ya{sv})
C6_Witness ==
    /\ pc = "serialized"
    /\ session_message.ok
    /\ session_message.message.signature
          = <<SIG_LPAREN, SIG_y, SIG_a, SIG_LBRACE, SIG_s, SIG_v, SIG_RBRACE, SIG_RPAREN>>

\* the alignment table of the format
NaturalAlignment(c) ==
    CASE c \in {SIG_y, SIG_g, SIG_v} -> 1
      [] c \in {SIG_n, SIG_q} -> 2
      [] c \in {SIG_b, SIG_i, SIG_u, SIG_s, SIG_o, SIG_a, SIG_h} -> 4
      [] OTHER -> 8

\* the size of a fixed-size type
FixedSize(c) ==
    CASE c = SIG_y -> 1
      [] c \in {SIG_n, SIG_q} -> 2
      [] c \in {SIG_b, SIG_i, SIG_u, SIG_h} -> 4
      [] OTHER -> 8

\* the u32 at the zero-based offset off
U32At(data, off) ==
    data[off + 1] + (256 * data[off + 2]) + (65536 * data[off + 3])
        + (16777216 * data[off + 4])

\* the bytes at the zero-based offsets from .. to-1 exist and are zero
ZeroPadding(data, from, to) ==
    /\ to <= Len(data)
    /\ \A k \in (from + 1)..to : data[k] = 0

Walked(off, next) == [flaw |-> "", off |-> off, next |-> next]

Flawed(flaw) == [flaw |-> flaw, off |-> 0, next |-> 0]

\* Reads the type at sig[i] from the zero-based offset off of data by the
\* layout of the format: [flaw, off, next] with the offset just past the
\* value, the index just past the type, and what was found wrong ("" when
\* nothing).  An array of length 0 is followed by padding to its element's
\* alignment when strict, and by nothing otherwise.
RECURSIVE WalkType(_, _, _, _, _)
RECURSIVE WalkMembers(_, _, _, _, _, _)
RECURSIVE WalkElements(_, _, _, _, _, _)
WalkType(sig, i, data, off, strict) ==
    LET c == sig[i]
        start == align(off, NaturalAlignment(c))
    IN  CASE c \in {SIG_y, SIG_n, SIG_q, SIG_b, SIG_i, SIG_u, SIG_h, SIG_x, SIG_t, SIG_d} ->
                IF ~ZeroPadding(data, off, start) THEN Flawed("padding")
                ELSE IF start + FixedSize(c) > Len(data) THEN Flawed("truncated")
                ELSE Walked(start + FixedSize(c), i + 1)
          [] c \in {SIG_s, SIG_o} ->
                IF ~ZeroPadding(data, off, start) THEN Flawed("padding")
                ELSE IF start + 4 > Len(data) THEN Flawed("truncated")
                ELSE LET n == U32At(data, start)
                     IN  IF start + 4 + n + 1 > Len(data) THEN Flawed("truncated")
                         ELSE IF data[start + 4 + n + 1] # 0 THEN Flawed("string_nul")
                         ELSE Walked(start + 4 + n + 1, i + 1)
          [] c = SIG_v ->
                IF off + 1 > Len(data) THEN Flawed("variant_signature")
                ELSE
                LET n == data[off + 1]
                    inner == SubSeq(data, off + 2, off + 1 + n)
                    payload == align(off + n + 2, NaturalAlignment(inner[1]))
                    r == WalkType(inner, 1, data, payload, strict)
                IN  IF off + n + 2 > Len(data) \/ n = 0 THEN Flawed("variant_signature")
                    ELSE IF TypeEnd(inner, 1, FALSE) # n + 1 THEN Flawed("variant_signature")
                    ELSE IF data[off + n + 2] # 0 THEN Flawed("variant_nul")
                    ELSE IF ~ZeroPadding(data, off + n + 2, payload)
                    THEN Flawed("variant_padding")
                    ELSE IF r.flaw # "" THEN r
                    ELSE Walked(r.off, i + 1)
          [] c = SIG_LPAREN ->
                IF ~ZeroPadding(data, off, start) THEN Flawed("padding")
                ELSE WalkMembers(sig, i + 1, data, start, SIG_RPAREN, strict)
          [] c = SIG_LBRACE ->
                IF ~ZeroPadding(data, off, start) THEN Flawed("padding")
                ELSE WalkMembers(sig, i + 1, data, start, SIG_RBRACE, strict)
          [] c = SIG_a ->
                IF ~ZeroPadding(data, off, start) \/ start + 4 > Len(data)
                THEN Flawed("array_length")
                ELSE
                LET n == U32At(data, start)
                    first == align(start + 4, NaturalAlignment(sig[i + 1]))
                    r == WalkElements(sig, i + 1, data, first, first + n, strict)
                IN  IF n = 0
                    THEN IF ~strict THEN Walked(start + 4, TypeEnd(sig, i, FALSE))
                         ELSE IF ~ZeroPadding(data, start + 4, first)
                         THEN Flawed("empty_array_padding")
                         ELSE Walked(first, TypeEnd(sig, i, FALSE))
                    ELSE IF ~ZeroPadding(data, start + 4, first) \/ first + n > Len(data)
                    THEN Flawed("array_first")
                    ELSE IF r.flaw # "" THEN r
                    ELSE Walked(first + n, TypeEnd(sig, i, FALSE))
          [] OTHER -> Flawed("signature")

\* the members of a struct or dict entry up to closer
WalkMembers(sig, i, data, off, closer, strict) ==
    IF i > Len(sig) THEN Flawed("signature")
    ELSE IF sig[i] = closer THEN Walked(off, i + 1)
    ELSE LET r == WalkType(sig, i, data, off, strict)
         IN  IF r.flaw # "" THEN r
             ELSE WalkMembers(sig, r.next, data, r.off, closer, strict)

\* the elements of type sig[i] of an array from off: the last one ends at
\* end_ix exactly
WalkElements(sig, i, data, off, end_ix, strict) ==
    IF off = end_ix THEN Walked(off, i)
    ELSE IF off > end_ix THEN Flawed("array_end")
    ELSE LET r == WalkType(sig, i, data, off, strict)
         IN  IF r.flaw # "" THEN r
             ELSE IF r.off <= off THEN Flawed("array_end")
             ELSE WalkElements(sig, i, data, r.off, end_ix, strict)

\* what is wrong with the layout of a message whose signature is one type:
\* "" when it reads through to the end of the data
WalkMessage(mesg, strict) ==
    LET r == WalkType(mesg.signature, 1, mesg.data, 0, strict)
    IN  IF r.flaw # "" THEN r.flaw
        ELSE IF r.off # Len(mesg.data) \/ r.next # Len(mesg.signature) + 1
        THEN "leftover"
        ELSE ""

Serialized == pc \in {"serialized", "done"} /\ session_message.ok

\* the message of val under the session's policy
MessageOf(val) == serialize_with_policy(val, session_policy, 0).message

\* the zero-based offset of the length field of the array that is the whole
\* message (a...) or the last member of a struct after a u8 ((ya...)), or -1
ArrayOffset(sig) ==
    IF sig[1] = SIG_a THEN 0
    ELSE IF /\ Len(sig) > 3
            /\ SubSeq(sig, 1, 3) = <<SIG_LPAREN, SIG_y, SIG_a>>
            /\ TypeEnd(sig, 3, FALSE) = Len(sig)
    THEN 4
    ELSE -1

ArrayElement(sig) == IF sig[1] = SIG_a THEN sig[2] ELSE sig[4]

\* C3: in every message produced, each array's length field sits at a
\* 4-aligned offset, its first element starts at the first offset after the
\* length field that is a multiple of the element type's alignment, and the
\* length is the offset past the last element minus the offset of the first
\* element (padding before the first element is not counted).
C3_ArrayLayout ==
    Serialized =>
        LET sig == session_message.message.signature
            data == session_message.message.data
            fill == ArrayOffset(sig)
            first == align(fill + 4, NaturalAlignment(ArrayElement(sig)))
        IN  /\ WalkMessage(session_message.message, FALSE) = ""
            /\ (fill >= 0 /\ U32At(data, fill) > 0) =>
                  /\ ZeroPadding(data, fill + 4, first)
                  /\ U32At(data, fill) = Len(data) - first

\* a map after a u8 in a tuple: the length field at 4, the first entry at 8
C3_Witness ==
    /\ Serialized
    /\ session_message.message.signature
          = <<SIG_LPAREN, SIG_y, SIG_a, SIG_LBRACE, SIG_s, SIG_v, SIG_RBRACE, SIG_RPAREN>>
    /\ U32At(session_message.message.data, 4) > 0
    /\ Len(session_message.message.data) > 8

\* C4: an array with no items is a length of 0, then padding to the element
\* type's alignment (8 for {sv}) and no element bytes; an empty a{sv} at
\* offset 0 is 8 bytes of data.
C4_EmptyArrayPadding ==
    Serialized =>
        LET sig == session_message.message.signature
            data == session_message.message.data
        IN  /\ WalkMessage(session_message.message, TRUE) = ""
            /\ (sig[1] = SIG_a /\ U32At(data, 0) = 0) =>
                  data = Zeros(align(4, NaturalAlignment(sig[2])))

\* the empty map's message is the 4 bytes of the length alone
C4_FailingInput ==
    /\ Serialized
    /\ session_type.k = "map"
    /\ session_value.v = <<>>
    /\ session_message.message.data = <<0, 0, 0, 0>>

VariantFlaws == {"variant_signature", "variant_nul", "variant_padding"}

\* C5: every variant emitted is one byte holding the length of the inner
\* value's signature, that signature, a 0 byte, and zero padding up to the
\* alignment of the first type of the signature, where the inner value
\* starts; the outer signature gains exactly one 'v'.
C5_VariantLayout ==
    Serialized =>
        LET sig == session_message.message.signature
            data == session_message.message.data
        IN  /\ WalkMessage(session_message.message, FALSE) \notin VariantFlaws
            /\ session_value.t = "seq" =>
                  /\ sig = <<SIG_a, SIG_v>>
                  /\ Len(session_value.v) > 0 =>
                        LET inner == MessageOf(session_value.v[1])
                            n == Len(inner.signature)
                            payload == align(4 + n + 2,
                                             NaturalAlignment(inner.signature[1]))
                        IN  /\ data[5] = n
                            /\ SubSeq(data, 6, 5 + n) = inner.signature
                            /\ data[6 + n] = 0
                            /\ ZeroPadding(data, 4 + n + 2, payload)
                            /\ payload % 8 = 0 =>
                                  SubSeq(data, payload + 1, payload + Len(inner.data))
                                      = inner.data

\* a Vec whose first element is a tuple: the variant's signature is
\* followed by padding to 8
C5_Witness ==
    /\ Serialized
    /\ session_value.t = "seq"
    /\ Len(session_value.v) > 0
    /\ session_value.v[1].t = "tuple"
    /\ Len(session_message.message.data) > 16

\* the struct value without its field i
Without(val, i) ==
    [val EXCEPT !.v = SubSeq(val.v, 1, i - 1) \o SubSeq(val.v, i + 1, Len(val.v))]

\* the signature of val's message is exactly ()
SignatureIsUnit(val) == MessageOf(val).signature = <<SIG_LPAREN, SIG_RPAREN>>

\* the fields of a struct value whose signature is not ()
Retained(val) == SelectSeq(val.v, LAMBDA f : ~SignatureIsUnit(f.value))

\* C7: under the Default policy a struct with a None field serializes to
\* the message of the same struct without the field: the entry of a field
\* whose value's signature is () is left out of the a{sv}, the length does
\* not count it, and the other entries keep their order.
C7_NoneFieldElided ==
    (Serialized /\ session_policy = "DefaultSerializerPolicy"
                /\ session_value.t = "struct") =>
        /\ \A i \in 1..Len(session_value.v) :
              SignatureIsUnit(session_value.v[i].value) =>
                  session_message.message = MessageOf(Without(session_value, i))
        /\ session_message.message
              = MessageOf([session_value EXCEPT !.v = Retained(session_value)])

\* a struct of a None and a field that is kept
C7_Witness ==
    /\ Serialized
    /\ session_policy = "DefaultSerializerPolicy"
    /\ session_value.t = "struct"
    /\ Len(session_value.v) = 2
    /\ session_value.v[1].value.t = "none"
    /\ session_value.v[2].value.t = "str"
    /\ Len(session_message.message.data) > 8

\* the signatures of the messages of the values of fields, one after another
RECURSIVE FieldSignatures(_, _)
FieldSignatures(fields, n) ==
    IF n = 0 THEN <<>>
    ELSE FieldSignatures(fields, n - 1) \o MessageOf(fields[n]).signature

FieldValuesOf(val) == [i \in 1..Len(val.v) |-> val.v[i].value]

\* C8: None encodes like unit and a unit struct, at top level "()" with
\* empty data; as a field of a struct under the StronglyTyped policy a None
\* is kept and adds () to the struct's signature, so the message is not
\* that of the struct without the field.
C8_NoneIsUnit ==
    Serialized =>
        /\ session_value.t \in {"none", "unit", "unit_struct"} =>
              /\ session_message.message.signature = <<SIG_LPAREN, SIG_RPAREN>>
              /\ session_message.message.data = <<>>
        /\ (session_policy = "StronglyTypedSerializerPolicy"
                /\ session_value.t = "struct") =>
              \A i \in 1..Len(session_value.v) :
                  session_value.v[i].value.t = "none" =>
                      /\ SignatureIsUnit(session_value.v[i].value)
                      /\ session_message.message.signature
                            = <<SIG_LPAREN>>
                              \o FieldSignatures(FieldValuesOf(session_value),
                                                 Len(session_value.v))
                              \o <<SIG_RPAREN>>
                      /\ session_message.message # MessageOf(Without(session_value, i))

\* a struct of a None and a string under StronglyTyped: (()s)
C8_Witness ==
    /\ Serialized
    /\ session_policy = "StronglyTypedSerializerPolicy"
    /\ session_value.t = "struct"
    /\ Len(session_value.v) = 2
    /\ session_value.v[1].value.t = "none"
    /\ session_message.message.signature
          = <<SIG_LPAREN, SIG_LPAREN, SIG_RPAREN, SIG_s, SIG_RPAREN>>

StructNames == {"S", "Foo", "StructSerialize"}

\* C9: a struct serializes as a{sv} (the field names as keys in declaration
\* order, each value in a variant) when the policy answers Dict for its
\* name and as (T1T2...) when it answers StronglyTyped, then with the very
\* message of the tuple of its field values; a tuple is strongly typed
\* under every policy; Default answers Dict and StronglyTyped answers
\* StronglyTyped for every name.
C9_StructStyle ==
    /\ \A name \in StructNames :
          /\ query_struct_name("DefaultSerializerPolicy", name) = "Dict"
          /\ query_struct_name("StronglyTypedSerializerPolicy", name) = "StronglyTyped"
    /\ (Serialized /\ session_value.t = "struct") =>
          IF query_struct_name(session_policy, session_value.name) = "Dict"
          THEN /\ session_message.message.signature
                     = <<SIG_a, SIG_LBRACE, SIG_s, SIG_v, SIG_RBRACE>>
               /\ session_message.message
                     = MessageOf(V("map",
                            [i \in 1..Len(Retained(session_value)) |->
                                [key |-> V("str", Retained(session_value)[i].name),
                                 value |-> Retained(session_value)[i].value]]))
          ELSE session_message.message
                   = MessageOf(V("tuple", FieldValuesOf(session_value)))
    /\ (Serialized /\ session_value.t = "tuple") =>
          session_message.message.signature
              = <<SIG_LPAREN>> \o FieldSignatures(session_value.v, Len(session_value.v))
                    \o <<SIG_RPAREN>>

\* a struct of two fields serialized under StronglyTyped: (sd)
C9_Witness ==
    /\ Serialized
    /\ session_policy = "StronglyTypedSerializerPolicy"
    /\ session_value.t = "struct"
    /\ session_message.message.signature = <<SIG_LPAREN, SIG_s, SIG_d, SIG_RPAREN>>

(***************************************************************************)
(* Messages of a peer.                                                     *)
(***************************************************************************)
\* the message of the session
SessionMessage == session_message.message

\* the first complete type of the message's signature, which is all a root
\* request reads of it
FirstType ==
    grab_single_sig(from_message_and_buffer(DataBuffer_from_message(SessionMessage),
                                            SessionMessage))

\* the root decode read all the data and the signature goes on after its
\* first complete type
SignatureLeftOver ==
    /\ pc = "done"
    /\ RootDecode.ok
    /\ RootDecode.data_ix = Len(SessionMessage.data)
    /\ FirstType.ok
    /\ FirstType.de.sig_ix < Len(SessionMessage.signature)

\* C11: when the root decode consumes all the data and leaves n > 0 bytes
\* of the signature unconsumed, from_message fails with LeftoverSignature(n).
C11_LeftoverSignature ==
    SignatureLeftOver =>
        /\ ~session_result.ok
        /\ session_result.err.kind = "LeftoverSignature"
        /\ session_result.err.a > 0

\* from_message::<u8> of the signature yy and the data [1] returns 1
C11_FailingInput ==
    /\ SignatureLeftOver
    /\ SessionMessage = [data |-> <<1>>, signature |-> <<SIG_y, SIG_y>>]
    /\ session_target = Ty("u8")
    /\ session_result = DOk(V("u8", 1), 1)

(***************************************************************************)
(* The items of an array.                                                  *)
(***************************************************************************)
\* the entry signature {Kv} of a map whose key has the signature K
DictEntry(K) == (<<SIG_LBRACE>> \o K) \o <<SIG_v, SIG_RBRACE>>

\* the session's value is a map whose first key is not a string
ForeignKey ==
    /\ pc = "done"
    /\ session_value.t = "map"
    /\ Len(session_value.v) > 0
    /\ session_value.v[1].key.t # "str"

\* C12: an item whose produced signature differs from the array's declared
\* element signature (a map entry with a key that is no string: {Kv} for
\* {sv}) makes finish_item return MismatchSignature(declared, produced), and
\* the serialize call fails with that error and no message; when every item
\* matches, the signature is 'a' and the declared element signature for
\* every number of items, zero included.
C12_MismatchSignature ==
    /\ ForeignKey =>
          session_message
              = [ok |-> FALSE,
                 err |-> Error("MismatchSignature", DictEntry(<<SIG_s>>),
                               DictEntry(MessageOf(session_value.v[1].key).signature)),
                 message |-> <<>>]
    /\ (pc = "done" /\ session_value.t = "seq") =>
          /\ session_message.ok
          /\ SessionMessage.signature = <<SIG_a, SIG_v>>
    /\ (pc = "done" /\ session_value.t = "map"
            /\ \A i \in 1..Len(session_value.v) : session_value.v[i].key.t = "str") =>
          /\ session_message.ok
          /\ SessionMessage.signature = <<SIG_a>> \o DictEntry(<<SIG_s>>)

\* the map {1i32: 5i32} was refused with MismatchSignature({sv}, {iv})
C12_Witness ==
    /\ ForeignKey
    /\ ~session_message.ok
    /\ session_message.err
          = Error("MismatchSignature", <<SIG_LBRACE, SIG_s, SIG_v, SIG_RBRACE>>,
                  <<SIG_LBRACE, SIG_i, SIG_v, SIG_RBRACE>>)

\* an array of no items was serialized
C12_WitnessEmpty ==
    /\ pc = "done"
    /\ session_value.t \in {"seq", "map"}
    /\ Len(session_value.v) = 0
    /\ session_message.ok

\* from_message has not returned: a visitor's loop is given element after
\* element without end
NoReturn ==
    /\ pc = "done"
    /\ session_result # Unset
    /\ ~session_result.ok
    /\ session_result.err.kind = "NeverReturns"

\* C13: from_message returns for every message, whatever its data and
\* signature, when the visitor asks for elements until the decoder reports
\* the end: every request for an element of an array moves the data cursor
\* or ends the array.
C13_Terminates == ~NoReturn

\* from_message::<Vec<()>> of the signature a() and the data
\* [1, 0, 0, 0, 0, 0, 0, 0]: an array of 1 byte from offset 8, whose unit
\* elements take no bytes
C13_FailingInput ==
    /\ NoReturn
    /\ SessionMessage = [data |-> <<1, 0, 0, 0, 0, 0, 0, 0>>,
                         signature |-> <<SIG_a, SIG_LPAREN, SIG_RPAREN>>]
    /\ session_target = SeqOf(Ty("unit"))

\* false for 0, true for 1 and InvalidBoolValue(u) for every other u
BoolOf(u) ==
    IF u \in {0, 1} THEN [ok |-> TRUE, err |-> <<>>, val |-> V("bool", u = 1)]
    ELSE [ok |-> FALSE, err |-> Error("InvalidBoolValue", u, 0), val |-> <<>>]

\* a bool is asked of the signature b and at least 4 bytes
BoolAsked ==
    /\ pc = "done"
    /\ session_target = Ty("bool")
    /\ SessionMessage.signature = <<SIG_b>>
    /\ Len(SessionMessage.data) >= 4

\* (u8, bool) is asked of the signature (yb) and at least 8 bytes
ByteAndBoolAsked ==
    /\ pc = "done"
    /\ session_target = TupleOf(<<Ty("u8"), Ty("bool")>>)
    /\ SessionMessage.signature = <<SIG_LPAREN, SIG_y, SIG_b, SIG_RPAREN>>
    /\ Len(SessionMessage.data) >= 8

\* C14: a bool of the signature b is read from a 4-aligned little-endian
\* u32: false for 0, true for 1 and InvalidBoolValue(u) for every other u.
C14_BoolValues ==
    /\ BoolAsked =>
          /\ [f \in {"ok", "err", "val"} |-> RootDecode[f]]
                = BoolOf(U32At(SessionMessage.data, 0))
          /\ RootDecode.data_ix = 4
    /\ ByteAndBoolAsked =>
          /\ RootDecode.ok = BoolOf(U32At(SessionMessage.data, 4)).ok
          /\ RootDecode.err = BoolOf(U32At(SessionMessage.data, 4)).err
          /\ RootDecode.ok =>
                RootDecode.val.v[2] = BoolOf(U32At(SessionMessage.data, 4)).val
          /\ RootDecode.data_ix = 8

\* the u32 2 read as a bool gave InvalidBoolValue(2), at offset 0 and after
\* a u8 at offset 4
C14_Witness ==
    /\ BoolAsked
    /\ SessionMessage.data = <<2, 0, 0, 0>>
    /\ session_result = DErr(Error("InvalidBoolValue", 2, 0), 4)

C14_WitnessAligned ==
    /\ ByteAndBoolAsked
    /\ SessionMessage.data = <<1, 0, 0, 0, 2, 0, 0, 0>>
    /\ session_result = DErr(Error("InvalidBoolValue", 2, 0), 8)

\* the codes of a signature: y b n q i u x t d s a ( ) { } v and the
\* reserved h o g
SignatureCodes ==
    {SIG_y, SIG_b, SIG_n, SIG_q, SIG_i, SIG_u, SIG_x, SIG_t, SIG_d, SIG_s, SIG_a,
     SIG_LPAREN, SIG_RPAREN, SIG_LBRACE, SIG_RBRACE, SIG_v, SIG_h, SIG_o, SIG_g}

\* from_message was asked for a value whose signature begins with a byte of
\* codes, or with a byte outside codes
AskedOf(codes) ==
    /\ pc = "done"
    /\ session_result # Unset
    /\ SessionMessage.signature # <<>>
    /\ SessionMessage.signature[1] \in codes

AskedOutside(codes) ==
    /\ pc = "done"
    /\ session_result # Unset
    /\ SessionMessage.signature # <<>>
    /\ SessionMessage.signature[1] \notin codes

C15_FailingInput ==
    /\ AskedOf({SIG_h})
    /\ session_target = Ty("u8")
    /\ SessionMessage.data = <<1>>
    /\ session_result.err = Error("SignatureError", SIG_y, SIG_h)

C15_WitnessUnrecognized ==
    /\ AskedOutside(SignatureCodes)
    /\ session_target = IgnoredAny
    /\ session_result.err = Error("UnrecognizedSignatureCharacter", 122, 0)

(***************************************************************************)
(* Alignment arithmetic                                                    *)
(***************************************************************************)
\* the least multiple of alignment that is at least ix, found by counting up
RECURSIVE LeastMultipleFrom(_, _)
LeastMultipleFrom(n, alignment) ==
    IF n % alignment = 0 THEN n ELSE LeastMultipleFrom(n + 1, alignment)

\* C16: align(ix, a) of an index and a power of two is the smallest n >= ix
\* that is a multiple of a; aligning the result again changes nothing and
\* the padding align adds is less than a
C16_Align ==
    align_call # Unset =>
        /\ align_call.new_size = LeastMultipleFrom(align_call.ix, align_call.alignment)
        /\ align_call.new_size >= align_call.ix
        /\ align_call.new_size % align_call.alignment = 0
        /\ \A n \in align_call.ix..(align_call.new_size - 1) :
              n % align_call.alignment # 0
        /\ align(align_call.new_size, align_call.alignment) = align_call.new_size
        /\ align_call.new_size - align_call.ix < align_call.alignment

\* a call that pads: align(25, 4) = 28, one of the cases of the tests
C16_Witness ==
    /\ align_call # Unset
    /\ align_call.ix = 25
    /\ align_call.alignment = 4
    /\ align_call.new_size = 28

\* a call on an aligned index, as the second of two calls in a row
C16_WitnessAligned ==
    /\ align_call # Unset
    /\ align_call.ix = 32
    /\ align_call.alignment = 8
    /\ align_call.new_size = 32

(***************************************************************************)
(* Length tokens of concurrent sessions                                    *)
(***************************************************************************)
\* the start_length calls made so far, as <<thread, number of the call>>
CallsMade == UNION {{<<t, k>> : k \in 1..Len(threads[t].tokens)} : t \in Threads}

\* the session of thread t run alone, from the counter at its first call
RunAlone(t) ==
    serialize_with_policy(threads[t].value, threads[t].policy,
                          IF threads[t].tokens = <<>> THEN 0 ELSE threads[t].tokens[1])

\* the session of thread t with a counter of its builder, which starts at 0
RunWithOwnCounter(t) == serialize_with_policy(threads[t].value, threads[t].policy, 0)

\* C17: however the start_length calls of the threads interleave, every call
\* gets a token no other call got, and a session's completed message is the
\* message of the session run alone and of a run with a counter of its own
C17_TokensDistinct ==
    /\ \A c \in CallsMade, d \in CallsMade :
          c # d => threads[c[1]].tokens[c[2]] # threads[d[1]].tokens[d[2]]
    /\ \A t \in Threads :
          threads[t].pc = "done" =>
              /\ ~threads[t].output.panicked
              /\ threads[t].output.ok = RunAlone(t).ok
              /\ threads[t].output.message = RunAlone(t).message
              /\ threads[t].output.message = RunWithOwnCounter(t).message

\* a thread completed arrays within an array whose tokens are not in a row,
\* the other thread's calls having come between them
C17_Witness ==
    \E t \in Threads :
        /\ threads[t].pc = "done"
        /\ threads[t].output.ok
        /\ Len(threads[t].tokens) = 3
        /\ threads[t].tokens[2] > threads[t].tokens[1] + 1
        /\ threads[t].tokens[3] > threads[t].tokens[2] + 1
        /\ \E u \in Threads : u # t /\ Len(threads[u].tokens) >= 2

(***************************************************************************)
(* Alignment at the entry of a struct                                      *)
(***************************************************************************)
\* the session round-tripped the tuple (u8, S) of a named struct S under
\* StronglyTyped: the encoder wrote S's members from offset 8, after the u8
\* at offset 0 and seven bytes of padding
StructAfterByte ==
    /\ RoundTripDone
    /\ session_policy = "StronglyTypedSerializerPolicy"
    /\ session_type.k = "tuple"
    /\ Len(session_type.items) = 2
    /\ session_type.items[1] = Ty("u8")
    /\ session_type.items[2].k = "struct"
    /\ session_message.message.signature[3] = SIG_LPAREN

\* the members of the struct are of kinds that the decoder reads with the
\* alignment the encoder wrote them with
MembersReadAsWritten ==
    \A i \in 1..Len(session_type.items[2].fields) :
        session_type.items[2].fields[i].ty.k \notin {"f32", "char"}

\* C18: a named-struct request whose signature byte is '(' aligns the data
\* cursor to 8 before its first member, so a struct serialized under
\* StronglyTyped after a u8 decodes its members from the offsets where the
\* encoder wrote them
C18_StructEntryAligned ==
    (StructAfterByte /\ MembersReadAsWritten) => RoundTripped

\* (1u8, S { a: 1u8 }): data [1, 0 x 7, 1]; the struct's u8 is read at
\* offset 1 and from_message returns LeftoverData(7)
C18_FailingInput ==
    /\ StructAfterByte
    /\ session_type = TupleTV(<<Leaf("u8", 1), StructTV("S", <<Leaf("u8", 1)>>)>>).ty
    /\ session_value = TupleTV(<<Leaf("u8", 1), StructTV("S", <<Leaf("u8", 1)>>)>>).val
    /\ session_message.message.data = <<1, 0, 0, 0, 0, 0, 0, 0, 1>>
    /\ ~session_result.ok
    /\ session_result.err = Error("LeftoverData", 7, 0)

(***************************************************************************)
(* Alignment of the primitive requests                                     *)
(***************************************************************************)
PrimitiveKinds ==
    {"bool", "i8", "i16", "i32", "i64", "u8", "u16", "u32", "u64", "f32", "f64",
     "char", "str"}

\* the session round-tripped the tuple (u8, P) of a primitive P: the encoder
\* wrote P at the first offset after the u8 that P's signature code aligns to
PrimitiveAfterByte ==
    /\ RoundTripDone
    /\ session_type.k = "tuple"
    /\ Len(session_type.items) = 2
    /\ session_type.items[1] = Ty("u8")
    /\ session_type.items[2].k \in PrimitiveKinds

\* the decode of the session's message as the tuple (u8, P)
AsByteAnd(P) == from_message(TupleOf(<<Ty("u8"), Ty(P)>>), session_message.message)

\* C19: every primitive request aligns the data cursor as the encoder did for
\* the signature code it consumes, so a primitive after a u8 is read from
\* where it was written; an f32 request reads a d where an f64 request reads
\* it, and a char request reads a u where the encoder wrote the char
C19_PrimitiveAlignment ==
    PrimitiveAfterByte =>
        /\ RoundTripped
        /\ session_type.items[2].k = "f64" => AsByteAnd("f32").ok

\* (1u8, 'A'): signature (yu), data [1, 0, 0, 0, 65, 0, 0, 0]; the char
\* request aligns to 2 and reads the bytes 2..6
C19_FailingInput ==
    /\ PrimitiveAfterByte
    /\ session_type.items[2].k = "char"
    /\ session_message.message.data = <<1, 0, 0, 0, 65, 0, 0, 0>>
    /\ ~session_result.ok
    /\ session_result.err.kind = "CharTryFromError"

(***************************************************************************)
(* Values wrapped in a variant                                             *)
(***************************************************************************)
\* the types of the values the session's encoder wrapped in a variant: the
\* elements of a Vec, the values of a map, the fields of a Dict-style struct
WrappedTypes ==
    CASE session_type.k \in {"seq", "map"} -> <<session_type.of>>
      [] session_type.k = "struct" ->
            [i \in 1..Len(session_type.fields) |-> session_type.fields[i].ty]
      [] OTHER -> <<>>

\* the session round-tripped a Vec, a map or a Dict-style struct of
\* primitives and options with at least one wrapped value: its signature is
\* av or a{sv} and its array is not empty
WrappedRoundTrip ==
    /\ RoundTripDone
    /\ session_message.message.signature
          \in {<<SIG_a, SIG_v>>, <<SIG_a, SIG_LBRACE, SIG_s, SIG_v, SIG_RBRACE>>}
    /\ Len(session_message.message.data) > 4
    /\ BoundedShape(session_type)
    /\ session_type.k \in {"seq", "map", "struct"}
    /\ \A i \in 1..Len(WrappedTypes) :
          WrappedTypes[i].k \in PrimitiveKinds \cup {"option"}

\* C20: at a v the decoder reads the embedded signature from the data and
\* decodes the value under it, so the elements of a Vec, the values of a map
\* and the fields of a Dict-style struct, which the encoder wrapped in
\* variants, decode to the values that were encoded, and an embedded
\* signature () decodes as None
C20_VariantDecode == WrappedRoundTrip => RoundTripped

\* vec![1.5f32, 1.5f32]: the second element's d is written at offset 24
\* after the variant header at 16..19; the f32 request aligns 19 to 20
C20_FailingInput ==
    /\ WrappedRoundTrip
    /\ session_type = SeqOf(Ty("f32"))
    /\ session_value = V("seq", <<V("f32", F32_1_5), V("f32", F32_1_5)>>)
    /\ Len(session_message.message.data) = 32
    /\ ~session_result.ok

\* a Vec<Option<String>> with a None, whose embedded signature is (),
\* round-tripped
C20_NoneElement ==
    /\ WrappedRoundTrip
    /\ session_type = SeqOf(OptionOf(Ty("str")))
    /\ Len(session_value.v) = 2
    /\ session_value.v[1].t = "none"
    /\ session_value.v[2].t = "some"
    /\ RoundTripped

(***************************************************************************)
(* Strings read from a message                                             *)
(***************************************************************************)
\* from_message::<String> was asked of a message of signature s
StringAsked ==
    /\ pc = "done"
    /\ session_result # Unset
    /\ session_target = Ty("str")
    /\ SessionMessage.signature = <<SIG_s>>

\* the declared length of the string at offset 0, or -1 without four bytes
DeclaredLength ==
    IF Len(SessionMessage.data) < 4 THEN -1 ELSE U32At(SessionMessage.data, 0)

\* the payload and its following byte are in the buffer
StringFits == DeclaredLength >= 0 /\ 4 + DeclaredLength + 1 <= Len(SessionMessage.data)

StringPayload == SubSeq(SessionMessage.data, 5, 4 + DeclaredLength)

\* C21: a string is rejected when its declared length exceeds the remaining
\* buffer, when the byte after the payload is not 0, or when the payload is
\* not UTF-8; otherwise the decode returns the payload and leaves the data
\* cursor at 4 + length + 1
C21_StringDecode ==
    StringAsked =>
        /\ RootDecode.ok <=>
              /\ StringFits
              /\ SessionMessage.data[4 + DeclaredLength + 1] = 0
              /\ from_utf8(StringPayload)
        /\ RootDecode.ok =>
              /\ RootDecode.val = V("str", StringPayload)
              /\ RootDecode.data_ix = 4 + DeclaredLength + 1

\* the string "a" followed by the byte 1 is returned as "a"
C21_FailingInput ==
    /\ StringAsked
    /\ SessionMessage.data = <<1, 0, 0, 0, 97, 1>>
    /\ session_result = DOk(V("str", <<97>>), 6)

(***************************************************************************)
(* The data cursor and the end of the data                                 *)
(***************************************************************************)
\* from_message has run on the session's message
Decoded == pc = "done" /\ session_result # Unset

\* C22: the shared data cursor is at most data.len in every state, the state
\* an operation that returned IndexOutOfBounds left behind included
C22_CursorInBounds ==
    Decoded =>
        /\ session_result.data_ix <= Len(SessionMessage.data)
        /\ RootDecode.data_ix <= Len(SessionMessage.data)

\* C22, amended: the data cursor is at most data.len after every decode
\* that returns Ok; a cursor beyond data.len is left only by the operation
\* that returns IndexOutOfBounds of that cursor, and from_message returns
\* that error, so DataBuffer::complete is not reached with such a cursor
C22_CursorInBoundsAfterOk ==
    Decoded =>
        /\ RootDecode.ok => RootDecode.data_ix <= Len(SessionMessage.data)
        /\ session_result.ok => session_result.data_ix = Len(SessionMessage.data)
        /\ RootDecode.data_ix > Len(SessionMessage.data) =>
              /\ RootDecode.err = Error("IndexOutOfBounds", RootDecode.data_ix, 0)
              /\ session_result = RootDecode

\* a u32 asked of the one byte [1]: read(4) stores data_ix = 4, then
\* validate_ix returns IndexOutOfBounds(4)
C22_Witness ==
    /\ Decoded
    /\ session_target = Ty("u32")
    /\ SessionMessage = [data |-> <<1>>, signature |-> <<SIG_u>>]
    /\ session_result = DErr(Error("IndexOutOfBounds", 4, 0), 4)

(***************************************************************************)
(* The elements of an array                                                *)
(***************************************************************************)
\* from_message::<Vec<u8>>, ::<Vec<u32>> or ::<BTreeMap<u8, u8>> was asked of
\* a message of the signature ay, au or a{yy} whose length field is there
ArrayAsked ==
    /\ Decoded
    /\ Len(SessionMessage.data) >= 4
    /\ \/ session_target = SeqOf(Ty("u8")) /\ SessionMessage.signature = <<SIG_a, SIG_y>>
       \/ session_target = SeqOf(Ty("u32")) /\ SessionMessage.signature = <<SIG_a, SIG_u>>
       \/ /\ session_target = MapOf(Ty("u8"), Ty("u8"))
          /\ SessionMessage.signature = <<SIG_a, SIG_LBRACE, SIG_y, SIG_y, SIG_RBRACE>>

\* the size of an element, which is its alignment, and the alignment of the
\* array's body
ElementSize == IF session_target = SeqOf(Ty("u32")) THEN 4 ELSE 1

BodyAlignment == IF session_target.k = "map" THEN 8 ELSE ElementSize

\* p, the element-aligned position after the length field, and p + L
BodyStart == align(4, BodyAlignment)

BodyEnd == BodyStart + U32At(SessionMessage.data, 0)

\* the element at the zero-based offset ix
ElementAt(ix) ==
    IF ElementSize = 1 THEN V("u8", SessionMessage.data[ix + 1])
    ELSE V("u32", read_u32(SubSeq(SessionMessage.data, ix + 1, ix + 4)))

\* what the cursor rule gives for a Vec from the cursor ix with the elements
\* read so far
RECURSIVE ElementsFrom(_, _)
ElementsFrom(ix, elements) ==
    IF ix > BodyEnd THEN DErr(Error("ArrayElementOverrun", ix, BodyEnd), ix)
    ELSE IF ix = BodyEnd THEN DOk(V("seq", elements), ix)
    ELSE IF ix + ElementSize > Len(SessionMessage.data)
    THEN DErr(Error("IndexOutOfBounds", ix + ElementSize, 0), ix + ElementSize)
    ELSE ElementsFrom(ix + ElementSize, Append(elements, ElementAt(ix)))

\* what the cursor rule gives for a map of u8 to u8: each entry is aligned
\* to 8, its key and its value are one byte each, and the value is asked for
\* only while the cursor is before the end
RECURSIVE EntriesFrom(_, _)
EntriesFrom(ix, entries) ==
    IF ix > BodyEnd THEN DErr(Error("ArrayElementOverrun", ix, BodyEnd), ix)
    ELSE IF ix = BodyEnd THEN DOk(V("map", entries), ix)
    ELSE IF align(ix, 8) > Len(SessionMessage.data)
    THEN DErr(Error("IndexOutOfBounds", align(ix, 8), 0), align(ix, 8))
    ELSE IF align(ix, 8) + 1 > Len(SessionMessage.data)
    THEN DErr(Error("IndexOutOfBounds", align(ix, 8) + 1, 0), align(ix, 8) + 1)
    ELSE IF align(ix, 8) + 1 >= BodyEnd
    THEN DErr(Error("ArrayElementOverrun", align(ix, 8) + 1, BodyEnd), align(ix, 8) + 1)
    ELSE IF align(ix, 8) + 2 > Len(SessionMessage.data)
    THEN DErr(Error("IndexOutOfBounds", align(ix, 8) + 2, 0), align(ix, 8) + 2)
    ELSE EntriesFrom(align(ix, 8) + 2,
                     BTreeMap_insert(entries,
                                     V("u8", SessionMessage.data[align(ix, 8) + 1]),
                                     V("u8", SessionMessage.data[align(ix, 8) + 2])))

\* the body's start is in the buffer
BodyInBuffer == BodyStart <= Len(SessionMessage.data)

\* C23: an array of declared length L whose body starts at p hands out an
\* element while data_ix < p + L, ends when data_ix = p + L and fails with
\* ArrayElementOverrun(data_ix, p + L) when data_ix > p + L; each element,
\* key and value is read at the shared cursor, which it advances by what it
\* consumed
C23_ArrayBounds ==
    (ArrayAsked /\ BodyInBuffer) =>
        RootDecode = IF session_target.k = "map"
                     THEN EntriesFrom(BodyStart, <<>>)
                     ELSE ElementsFrom(BodyStart, <<>>)

\* a Vec<u32> of declared length 1: the element read leaves the cursor at 8,
\* past the end 5
C23_Witness ==
    /\ ArrayAsked
    /\ session_target = SeqOf(Ty("u32"))
    /\ session_result = DErr(Error("ArrayElementOverrun", 8, 5), 8)

\* a Vec<u32> of two elements, read to the end of the array
C23_WitnessEnd ==
    /\ ArrayAsked
    /\ session_target = SeqOf(Ty("u32"))
    /\ session_result = DOk(V("seq", <<V("u32", 1), V("u32", 2)>>), 12)

\* a map whose second entry, aligned to 16, leaves the cursor past the end
C23_WitnessEntry ==
    /\ ArrayAsked
    /\ session_target.k = "map"
    /\ session_result = DErr(Error("ArrayElementOverrun", 17, 11), 17)

(***************************************************************************)
(* C24.  The shape of the component stream.                                *)
(***************************************************************************)
\* the streams a builder operation has worked on
BuiltStreams == {build.main, build.contents}

IsSlice(c) == c.kind = "AlignmentSlice"

IsMarker(c) == c.kind \in {"LengthBegin", "LengthEnd"}

StreamShape(b) ==
    /\ Len(b) >= 1
    /\ IsSlice(b[1])
    /\ IsSlice(b[Len(b)])
    /\ \A i \in 1..Len(b) : IsMarker(b[i]) => i < Len(b) /\ IsSlice(b[i + 1])

\* C24: after new() and after any sequence of align, prepare_write,
\* start_length, finish_length and append_data the component stream is
\* non-empty, its first and its last component are alignment slices, and every
\* length-begin or length-end marker is immediately followed by an alignment
\* slice
C24_StreamShape == \A b \in BuiltStreams : StreamShape(b)

\* a length begun and finished in the main stream, and bytes written after it
C24_Witness ==
    /\ \E i \in 1..Len(build.main) : build.main[i].kind = "LengthBegin"
    /\ \E i \in 1..Len(build.main) : build.main[i].kind = "LengthEnd"
    /\ build.contents_ops = <<>>
    /\ Len(build.ops) = MaxBuilderOps
    /\ build.ops[1].op = "start_length"
    /\ build.ops[Len(build.ops)].op = "write"
    /\ build.open = <<>>

(***************************************************************************)
(* C25.  The builder against an encoder that writes at absolute offsets.   *)
(***************************************************************************)
\* out padded with zero bytes to the smallest length >= Len(out) that is a
\* multiple of a
PadTo(out, a) == out \o Zeros(CHOOSE k \in 0..(a - 1) : (Len(out) + k) % a = 0)

\* out with the four bytes after offset fill_ix holding length, little-endian
BackFill(out, fill_ix, length) ==
    [k \in 1..Len(out) |->
        IF k > fill_ix /\ k <= fill_ix + 4
        THEN (length \div Pow2(8 * (k - fill_ix - 1))) % 256
        ELSE out[k]]

\* the eager encoder: the operations of a log applied to the output itself.
\* lengths maps the token of a length to <<offset of its field, offset where
\* its body begins>>; body is <<>> or <<token>> of the length whose body has no
\* byte yet, so that an alignment asked for still moves where the body begins.
RECURSIVE Eager(_, _, _, _, _)
Eager(ops, i, out, lengths, body) ==
    IF i > Len(ops) THEN out
    ELSE
    CASE ops[i].op = "align" ->
            LET Padded(padded) ==
                    Eager(ops, i + 1, padded,
                          IF body = <<>> THEN lengths
                          ELSE [lengths EXCEPT ![body[1]] = <<@[1], Len(padded)>>],
                          body)
            IN  Padded(PadTo(out, ops[i].arg))
      [] ops[i].op = "write" ->
            Eager(ops, i + 1, out \o WrittenBytes(ops[i].arg), lengths, <<>>)
      [] ops[i].op = "start_length" ->
            LET Padded(padded) ==
                    Eager(ops, i + 1, padded \o Zeros(4),
                          [t \in DOMAIN lengths \cup {ops[i].arg} |->
                              IF t = ops[i].arg THEN <<Len(padded), Len(padded) + 4>>
                              ELSE IF body = <<t>> THEN <<lengths[t][1], Len(padded)>>
                              ELSE lengths[t]],
                          <<ops[i].arg>>)
            IN  Padded(PadTo(out, 4))
      [] ops[i].op = "finish_length" ->
            Eager(ops, i + 1,
                  BackFill(out, lengths[ops[i].arg][1], Len(out) - lengths[ops[i].arg][2]),
                  lengths, <<>>)

EagerBytes(ops) == Eager(ops, 1, <<>>, <<>>, <<>>)

\* the operations of a log issued one by one on a builder
RECURSIVE Issue(_, _, _)
Issue(b, ops, i) ==
    IF i > Len(ops) THEN b
    ELSE
    CASE ops[i].op = "align" -> Issue(MessageBuilder_align(b, ops[i].arg), ops, i + 1)
      [] ops[i].op = "write" ->
            Issue(copy_into_top(prepare_write(b, ops[i].arg), WrittenBytes(ops[i].arg)),
                  ops, i + 1)
      [] ops[i].op = "start_length" -> Issue(start_length(b, ops[i].arg).builder, ops, i + 1)
      [] ops[i].op = "finish_length" -> Issue(finish_length(b, ops[i].arg), ops, i + 1)

\* C25: for any sequence of align, prepare_write, start_length, finish_length
\* and append_data operations complete() yields the bytes of the eager
\* encoder (every block after align(a) at the smallest multiple of a not below
\* the previous end, padding all zero, nothing else inserted), and a builder
\* spliced in by append_data yields the bytes its operations yield when they
\* are issued on the receiving builder itself
C25_EagerEquivalence ==
    /\ ~complete(build.main).panicked
    /\ complete(build.main).output_data = EagerBytes(build.ops)
    /\ complete(build.contents).output_data = EagerBytes(build.contents_ops)
    /\ complete(append_data(build.main, build.contents)).output_data
           = complete(Issue(build.main, build.contents_ops, 1)).output_data
    /\ complete(append_data(build.main, build.contents)).output_data
           = EagerBytes(build.ops \o build.contents_ops)

\* an alignment resolved by raising the alignment of an empty slice
C25_WitnessRaised ==
    /\ build.ops = <<Op("write", 1), Op("start_length", 0), Op("align", 8), Op("write", 3)>>
    /\ build.main[Len(build.main)] = AlignmentSlice(8, WrittenBytes(3))
    /\ Len(complete(build.main).output_data) = 11

\* an alignment resolved by padding inside the top slice
C25_WitnessInside ==
    /\ build.ops = <<Op("align", 8), Op("write", 1), Op("align", 4), Op("write", 1)>>
    /\ build.main = <<AlignmentSlice(8, <<255, 0, 0, 0, 255>>)>>

\* an alignment resolved by pushing a new slice
C25_WitnessPushed ==
    /\ build.ops = <<Op("write", 3), Op("align", 8), Op("write", 1)>>
    /\ Len(build.main) = 2
    /\ complete(build.main).output_data = <<255, 255, 255, 0, 0, 0, 0, 0, 255>>

\* contents that pad inside their own slice, about to be spliced behind a byte
C25_WitnessSplice ==
    /\ build.ops = <<Op("write", 1)>>
    /\ build.contents_ops = <<Op("align", 4), Op("write", 1), Op("align", 2)>>
    /\ complete(append_data(build.main, build.contents)).output_data
           = <<255, 0, 0, 0, 255, 0>>

(***************************************************************************)
(* C26.  finish_optional_item on the dict of a struct.                     *)
(***************************************************************************)
DictSession ==
    /\ Serialized
    /\ session_value.t = "struct"
    /\ query_struct_name(session_policy, session_value.name) = "Dict"

\* the dict serializer of the session's struct when its first n fields are
\* done, with the token counter: [ok, err, state, count]
RECURSIVE DictAfter(_)
DictAfter(n) ==
    IF n = 0
    THEN [ok |-> TRUE, err |-> <<>>,
          state |-> [style |-> "Dict", ser |-> start_dict(ReadySerializer_new)],
          count |-> 0]
    ELSE LET Field(before) ==
                 SerializeStruct_serialize_field(
                     before.state, session_value.v[n].name, session_value.v[n].value,
                     session_policy, before.count)
         IN  Field(DictAfter(n - 1))

\* the DoneSerializer of the value of field n
ItemOf(n) ==
    Serialize(session_value.v[n].value,
              ReadyDictSerializer_start_item(DictAfter(n - 1).state.ser).ready,
              session_policy, DictAfter(n - 1).count).mesg

\* what finish_optional_item returns for field n
OptionalItem(n) ==
    finish_optional_item(ReadyDictSerializer_start_item(DictAfter(n - 1).state.ser).pending,
                         session_value.v[n].name, ItemOf(n))

\* the bytes of the array contents of a dict serializer
ContentsBytes(ser) == complete(ser.contents.builder).output_data

\* one {sv} entry up to the variant's signature, behind the contents so far:
\* padding to 8, the key as a string, the signature with its length and NUL
EntryHead(contents, name, signature) ==
    ((((PadTo(contents, 8) \o to_le_bytes(Len(name), 4)) \o name) \o <<0>>)
        \o <<Len(signature)>> \o signature) \o <<0>>

\* the entry whole: the value's bytes follow the head, each block of them at
\* the next offset its own alignment allows
WithEntry(contents, name, item) ==
    complete(append_data(<<AlignmentSlice(8, EntryHead(contents, name, item.signature))>>,
                         item.builder)).output_data

OptionalItemEffect(n) ==
    LET Effect(before, res, item) ==
            /\ res.ok
            /\ res.ser.prev = before.prev
            /\ res.ser.item_sig = before.item_sig
            /\ res.ser.contents.signature = before.contents.signature
            /\ IF item.signature = <<SIG_LPAREN, SIG_RPAREN>>
               THEN /\ res.ser = before
                    /\ res.ser = cancel_item(before)
                    /\ ContentsBytes(res.ser) = ContentsBytes(before)
                    /\ session_message.message = MessageOf(Without(session_value, n))
               ELSE ContentsBytes(res.ser)
                        = WithEntry(ContentsBytes(before), session_value.v[n].name, item)
    IN  Effect(DictAfter(n - 1).state.ser, OptionalItem(n), ItemOf(n))

\* C26: finish_optional_item with a value whose signature is exactly ()
\* returns the dict serializer with array contents, preceding bytes and
\* signature unchanged, as cancel_item does, and the finished message is that
\* of the struct without the item; with any other value it appends exactly
\* one {sv} entry: alignment to 8, the key string, a variant of the value
C26_OptionalItem ==
    DictSession =>
        /\ DictAfter(Len(session_value.v)).ok
        /\ \A n \in 1..Len(session_value.v) : OptionalItemEffect(n)
        /\ session_message.message.data
               = complete(finish_dict(DictAfter(Len(session_value.v)).state.ser,
                                      DictAfter(Len(session_value.v)).count)
                              .mesg.builder).output_data

\* a kept field, then a None: the dict keeps the entry of the first
C26_Witness ==
    /\ DictSession
    /\ Len(session_value.v) = 2
    /\ session_value.v[1].value.t = "u8"
    /\ session_value.v[2].value.t = "none"
    /\ ItemOf(2).signature = <<SIG_LPAREN, SIG_RPAREN>>
    /\ OptionalItem(2).ser = DictAfter(1).state.ser
    /\ Len(ContentsBytes(DictAfter(2).state.ser)) > 8

\* two kept fields: the second entry begins after padding to 8
C26_WitnessEntry ==
    /\ DictSession
    /\ Len(session_value.v) = 2
    /\ session_value.v[1].value.t = "u8"
    /\ session_value.v[2].value.t = "u64"
    /\ Len(ContentsBytes(DictAfter(1).state.ser)) % 8 # 0
    /\ Len(ContentsBytes(DictAfter(2).state.ser)) = 40
(***************************************************************************)
(* C27.  The cursors only move forward.                                    *)
(***************************************************************************)
\* one operation on an open decoder: what it may do to the two cursors
CursorAdvance ==
    (cursor.state = "open" /\ cursor'.state \in {"open", "failed"}) =>
        /\ cursor'.de.data = cursor.de.data
        /\ cursor'.de.data_ix >= cursor.de.data_ix
        /\ cursor'.op # "subsidiary" =>
              /\ cursor'.de.sig = cursor.de.sig
              /\ cursor'.de.sig_ix >= cursor.de.sig_ix
        /\ cursor'.op \in {"align_reader", "read"} =>
              cursor'.de.sig_ix = cursor.de.sig_ix
        /\ cursor'.op \notin {"align_reader", "read"} =>
              cursor'.de.data_ix = cursor.de.data_ix
        /\ cursor'.op = "read" =>
              cursor'.de.data_ix = cursor.de.data_ix + cursor'.arg[1]
        /\ cursor'.op = "peek_single_sig" => cursor'.de.sig_ix = cursor.de.sig_ix
        /\ (cursor'.op \in {"probe_signature_bytes", "expect_signature_byte",
                            "grab_single_sig"} /\ ~cursor'.hit) =>
              cursor'.de.sig_ix = cursor.de.sig_ix
        /\ (cursor'.op \in {"probe_signature_bytes", "expect_signature_byte",
                            "grab_single_sig"} /\ cursor'.hit) =>
              cursor'.de.sig_ix > cursor.de.sig_ix
        /\ (cursor'.op = "probe_signature_bytes" /\ cursor'.hit) =>
              cursor'.de.sig_ix = cursor.de.sig_ix + Len(cursor'.arg)
        /\ (cursor'.op = "expect_signature_byte" /\ cursor'.hit) =>
              cursor'.de.sig_ix = cursor.de.sig_ix + 1

\* C27: over a decoding session the data cursor never decreases and a
\* decoder's signature index never decreases across completed operations:
\* peek_single_sig restores it, probe_signature_bytes and
\* expect_signature_byte leave it unchanged on mismatch, and every successful
\* consume moves it forward
C27_CursorsAdvance == [][CursorAdvance]_vars

\* a peek that succeeded with both cursors past the start
C27_Witness ==
    /\ cursor.state = "open"
    /\ cursor.op = "peek_single_sig"
    /\ cursor.hit
    /\ cursor.out = <<SIG_LPAREN, SIG_b, SIG_RPAREN>>
    /\ cursor.de.sig_ix = 2
    /\ cursor.de.data_ix = 8

\* a probe that did not match, after a type was consumed
C27_WitnessMismatch ==
    /\ cursor.state = "open"
    /\ cursor.op = "probe_signature_bytes"
    /\ ~cursor.hit
    /\ cursor.de.sig_ix > 0

(***************************************************************************)
(* C28.  The order of the output, and what a length back-fill touches.     *)
(***************************************************************************)
IsPrefix(p, s) == Len(p) <= Len(s) /\ SubSeq(s, 1, Len(p)) = p

\* the session's composite with only its first k members
Firsts(k) == [session_value EXCEPT !.v = SubSeq(session_value.v, 1, k)]

\* a message's data behind the four bytes of the length of its array
Body(data) == SubSeq(data, 5, Len(data))

\* the message is one array: a Vec, a map, or a struct written as a dict
IsArraySession == session_message.message.signature[1] = SIG_a

\* a signature without its closing bracket
Unclosed(sig) == SubSeq(sig, 1, Len(sig) - 1)

MembersInOrder ==
    \A k \in 0..Len(session_value.v) :
        IF IsArraySession
        THEN /\ IsPrefix(Body(MessageOf(Firsts(k)).data), Body(session_message.message.data))
             /\ k > 0 =>
                   Len(Body(MessageOf(Firsts(k)).data))
                       >= Len(Body(MessageOf(Firsts(k - 1)).data))
        ELSE /\ IsPrefix(MessageOf(Firsts(k)).data, session_message.message.data)
             /\ IsPrefix(Unclosed(MessageOf(Firsts(k)).signature),
                         session_message.message.signature)

\* the component stream the session's message was completed from
SessionStream ==
    Serialize(session_value, ReadySerializer_new, session_policy, 0).mesg.builder

\* a stream without the length-end marker of token
NotFinished(b, token) ==
    SelectSeq(b, LAMBDA c : ~(c.kind = "LengthEnd" /\ c.token = token))

\* the offset of the length field of the marker at place i of the stream: the
\* length of the output of complete() over what precedes the marker
FieldOffset(b, i) == Len(complete(SubSeq(b, 1, i - 1)).output_data)

\* finishing the length begun at place i changes the four bytes of its own
\* field, to the number of bytes between the body's start and the end marker,
\* and nothing else
BackFillTouches(b, i) ==
    LET Compared(out, bare, fill_ix) ==
            /\ Len(out) = Len(bare)
            /\ \A k \in 1..Len(out) :
                  (k <= fill_ix \/ k > fill_ix + 4) => out[k] = bare[k]
            /\ SubSeq(bare, fill_ix + 1, fill_ix + 4) = <<0, 0, 0, 0>>
            /\ fill_ix % 4 = 0
            /\ fill_ix + 4 <= Len(out)
    IN  Compared(complete(b).output_data,
                 complete(NotFinished(b, b[i].token)).output_data,
                 FieldOffset(b, i))

\* C28: in complete()'s output the bytes of values serialized earlier
\* precede the bytes of values serialized later (struct fields, array items
\* and dict entries in the order they were serialized, as their codes in the
\* signature), and back-filling an array length overwrites only the four
\* reserved bytes of that array's own length field and changes neither the
\* output's length nor any other byte
C28_OrderAndBackFill ==
    Serialized =>
        /\ session_value.t \in {"seq", "map", "tuple", "struct"} => MembersInOrder
        /\ \A i \in 1..Len(SessionStream) :
              SessionStream[i].kind = "LengthBegin" => BackFillTouches(SessionStream, i)
        /\ complete(SessionStream).output_data = session_message.message.data

\* a byte and then a Vec of two items in a tuple: the array's contents were
\* buffered while the byte was already written
C28_Witness ==
    /\ Serialized
    /\ session_value.t = "tuple"
    /\ Len(session_value.v) = 2
    /\ session_value.v[1].t = "u8"
    /\ session_value.v[2].t = "seq"
    /\ Len(session_value.v[2].v) = 2
    /\ \E i \in 1..Len(SessionStream) : SessionStream[i].kind = "LengthBegin"
    /\ session_message.message.data[5] # 0

(***************************************************************************)
(* C29.  grab_single_sig and peek_single_sig.                              *)
(***************************************************************************)
Openers == {SIG_LPAREN, SIG_LBRACKET, SIG_LBRACE}

Closers == {SIG_RPAREN, SIG_RBRACKET, SIG_RBRACE}

\* the number of brackets open after the bytes sig[from + 1 .. to] (zero-based
\* from, exclusive to): openers less closers
RECURSIVE Depth(_, _, _)
Depth(sig, from, to) ==
    IF to <= from THEN 0
    ELSE Depth(sig, from, to - 1)
             + (IF sig[to] \in Openers THEN 1 ELSE IF sig[to] \in Closers THEN -1 ELSE 0)

\* the zero-based index of the first byte at or after ix that is not 'a', or
\* Len(sig) when there is none
RECURSIVE SkipArrays(_, _)
SkipArrays(sig, ix) ==
    IF ix < Len(sig) /\ sig[ix + 1] = SIG_a THEN SkipArrays(sig, ix + 1) ELSE ix

\* the end (exclusive, zero-based) of the single type that starts at ix: after
\* the leading 'a's one byte that is no bracket, or a group from its opener
\* through the closer that brings the depth back to zero; -1 when the
\* signature ends before that
SingleTypeEnd(sig, ix) ==
    LET Closed(first) ==
            IF first >= Len(sig) THEN -1
            ELSE IF sig[first + 1] \in Closers THEN -1
            ELSE IF sig[first + 1] \notin Openers THEN first + 1
            ELSE IF \E e \in (first + 1)..Len(sig) : Depth(sig, first, e) = 0
            THEN CHOOSE e \in (first + 1)..Len(sig) :
                     /\ Depth(sig, first, e) = 0
                     /\ \A d \in (first + 1)..(e - 1) : Depth(sig, first, d) > 0
            ELSE -1
    IN  Closed(SkipArrays(sig, ix))

\* the scan from ix comes to the end of the signature: the brackets are
\* balanced at no byte on the way other than an 'a'
EndReached(sig, ix) ==
    \A e \in (ix + 1)..Len(sig) : sig[e] = SIG_a \/ Depth(sig, ix, e) # 0

\* C29: grab_single_sig at the start of a well-formed single type returns
\* that type's bytes (leading 'a's, then one primitive byte or one bracketed
\* group through its matching closer) and moves the cursor just past it;
\* when the signature ends with brackets open it fails with
\* MismatchedSignatureBracketing(start) and leaves the cursor where it was;
\* peek_single_sig returns the same slice without moving the cursor
C29_SingleSig ==
    cursor.state = "open" =>
        LET Grabbed(de, end, grabbed, peeked) ==
                /\ end >= 0 =>
                      /\ grabbed.ok
                      /\ grabbed.out = Slice(de.sig, de.sig_ix, end)
                      /\ grabbed.de = [de EXCEPT !.sig_ix = end]
                      /\ peeked.ok
                      /\ peeked.out = grabbed.out
                      /\ peeked.de = de
                /\ (EndReached(de.sig, de.sig_ix)
                        /\ Depth(de.sig, de.sig_ix, Len(de.sig)) > 0) =>
                      /\ ~grabbed.ok
                      /\ grabbed.err
                             = Error("MismatchedSignatureBracketing", de.sig_ix, 0)
                      /\ grabbed.de = de
                      /\ ~peeked.ok
                      /\ peeked.err = grabbed.err
                      /\ peeked.de = de
        IN  Grabbed(cursor.de, SingleTypeEnd(cursor.de.sig, cursor.de.sig_ix),
                    grab_single_sig(cursor.de), peek_single_sig(cursor.de))

\* an array of dict entries grabbed whole after a byte was expected
C29_Witness ==
    /\ cursor.op = "grab_single_sig"
    /\ cursor.hit
    /\ cursor.out = <<SIG_LPAREN, SIG_y, SIG_LPAREN, SIG_b, SIG_RPAREN, SIG_RPAREN>>
    /\ cursor.de.sig_ix = 6

\* a grab that met the end of the signature inside a struct
C29_WitnessOpen ==
    /\ cursor.state = "failed"
    /\ cursor.op = "grab_single_sig"
    /\ cursor.de.sig_ix = 1
    /\ Depth(cursor.de.sig, 1, Len(cursor.de.sig)) > 0
    /\ cursor.de.sig = <<SIG_y, SIG_LPAREN, SIG_LPAREN, SIG_y, SIG_RPAREN>>

(***************************************************************************)
(* C30.  i8 travels as an i16.                                             *)
(***************************************************************************)
\* a byte read as a two's complement number of 8 bits
SignedByte(b) == IF b >= 128 THEN b - 256 ELSE b

\* the two bytes of v sign-extended to 16 bits, little-endian
SignExtended(v) == IF v >= 0 THEN <<v, 0>> ELSE <<v + 256, 255>>

\* an i8 was asked of a message of signature n with the two bytes of an i16
ShortAsked ==
    /\ Decoded
    /\ SessionMessage.signature = <<SIG_n>>
    /\ Len(SessionMessage.data) = 2
    /\ session_target = Ty("i8")

I8Message(v) == serialize_with_policy(V("i8", v), session_policy, 0).message

\* C30: an i8 v is encoded as the sign-extended i16 with signature n; an i8
\* asked of signature n reads the i16 and returns its low 8 bits as a two's
\* complement number, without error, so every i8 round-trips and an i16
\* outside the range of i8 is accepted and wrapped
C30_I8AsI16 ==
    ShortAsked =>
        /\ session_result = DOk(V("i8", SignedByte(SessionMessage.data[1])), 2)
        /\ \A v \in -128..127 :
              /\ I8Message(v) = [data |-> SignExtended(v), signature |-> <<SIG_n>>]
              /\ from_message(Ty("i8"), I8Message(v)) = DOk(V("i8", v), 2)

\* the i16 257 read as the i8 1
C30_Witness ==
    /\ ShortAsked
    /\ SessionMessage.data = <<1, 1>>
    /\ session_result.ok
    /\ session_result.val = V("i8", 1)

\* the i16 128 read as the i8 -128
C30_WitnessNegative ==
    /\ ShortAsked
    /\ SessionMessage.data = <<128, 0>>
    /\ session_result.ok
    /\ session_result.val = V("i8", -128)

=============================================================================
